---- MODULE Spec2Model ----
(***************************************************************************)
(* Model of SmartBilling: the chunked-capture session state machine of     *)
(* src/App.tsx (startChunkSession, handleChunkCapture, finishCurrentChunk, *)
(* processChunkQueue, the Pause button, closeChunkSession, the resume      *)
(* effect), the tiered recognition call of parseBillingDocument and the    *)
(* rate engine of src/utils/billingLogic.ts that the commit step applies.  *)
(* The manifest repository of the same component is modelled beside it:   *)
(* the JSON and document imports with their conflict dialog                *)
(* (handleJsonFile, processFilesWithAI, resolveConflict), the bulk JSON    *)
(* and archive imports (handleBulkJsonImport, handleZipImportRefactored,   *)
(* executeBatchImport), the editor (addRow, updateRow, deleteRow,          *)
(* saveManifest), the folders and the recycle bin.                         *)
(* The functions of billingLogic.ts are also called on their own, on       *)
(* arguments drawn in the initial state: calculateParcelAmount and         *)
(* calculateRow in RateSpec, evaluateExpression in EvalSpec.               *)
(* CloseSpec is the capture session under weak fairness, with a user who   *)
(* keeps closing the session view.                                         *)
(*                                                                         *)
(* React closures are modelled explicitly: an asynchronous handler keeps   *)
(* the chunkSession value of the render it was created in (field cs of a   *)
(* call, a timer or a capture), while a functional state update            *)
(* (setState(prev => ...)) reads the current value of the variable.        *)
(***************************************************************************)
EXTENDS Integers, Sequences, FiniteSets, TLC

(***************************************************************************)
(* Bounds of the model.                                                    *)
(***************************************************************************)
MaxImages == 3
MaxManifests == 3
MaxDrains == 2
MaxOverlapImages == 2
MaxOverlapManifests == 2
MaxTierImages == 2
MaxTierManifests == 1
MaxCaptureImages == 6
MaxCapturesInFlight == 1
MaxRepoManifests == 3
MaxManifestIds == 5
MaxFolderIds == 2
MaxRaceIds == 2
MaxRowIds == 1
MaxSaveClock == 2
MaxRestoreIds == 3
MaxWeight == 120
MaxExprLen == 3

(***************************************************************************)
(* JavaScript numbers are modelled as exact rationals [n, d] with d > 0,   *)
(* kept in lowest terms.                                                   *)
(***************************************************************************)
Abs(x) == IF x < 0 THEN -x ELSE x

RECURSIVE Gcd(_, _)
Gcd(a, b) == IF b = 0 THEN a ELSE Gcd(b, a % b)

Rat(n, d) ==
  LET g == Gcd(Abs(n), Abs(d))
      s == IF d < 0 THEN -1 ELSE 1
  IN  [n |-> (s * n) \div g, d |-> (s * d) \div g]

Num(k) == [n |-> k, d |-> 1]

RatAdd(x, y) == Rat(x.n * y.d + y.n * x.d, x.d * y.d)

RatMul(x, y) == Rat(x.n * y.n, x.d * y.d)

RatDiv(x, y) == Rat(x.n * y.d, x.d * y.n)

RatGt0(x) == x.n > 0

\* Math.ceil
Ceil(x) == -((-x.n) \div x.d)

\* Math.min on integers
Min(a, b) == IF a < b THEN a ELSE b

(***************************************************************************)
(* Rate engine (src/utils/billingLogic.ts).                                *)
(***************************************************************************)
Slab1Cap == 10
Slab2Cap == 100

DEFAULT_CONFIG ==
  [parcelSlab1Rate |-> Num(3), parcelSlab2Rate |-> Num(2),
   parcelSlab3Rate |-> Num(1), documentRate |-> Num(5)]

\* Math.floor in place of Math.ceil
RoundedWeightDown(weight) == IF RatGt0(weight) THEN weight.n \div weight.d ELSE 0

\* weight > 0 ? Math.ceil(weight) : 0
RoundedWeight(weight) == IF RatGt0(weight) THEN Ceil(weight) ELSE 0

\* A breakdown string is modelled by its kind and its "<w>kg*<rate>" terms.
ZeroBreakdown == [kind |-> "zero", parts |-> <<>>]

\* the whole weight billed at the rate of the slab it reaches
calculateParcelAmountAtSlabRate(weight, config) ==
  LET roundedWeight == IF RatGt0(weight) THEN Ceil(weight) ELSE 0
      s1w == Min(roundedWeight, Slab1Cap)
      s2w == Min(roundedWeight - s1w, Slab2Cap)
      s3w == roundedWeight - s1w - s2w
      rate == IF s3w > 0 THEN config.parcelSlab3Rate
              ELSE IF s2w > 0 THEN config.parcelSlab2Rate
              ELSE config.parcelSlab1Rate
  IN  [total |-> RatMul(Num(roundedWeight), rate),
       breakdown |-> IF roundedWeight = 0 THEN ZeroBreakdown
                     ELSE [kind |-> "slabs", parts |-> <<[w |-> roundedWeight, r |-> rate]>>],
       s1w |-> s1w, s2w |-> s2w, s3w |-> s3w]

\* a faulty variant: the breakdown names every slab, also one without weight
calculateParcelAmountNamingEverySlab(weight, config) ==
  LET roundedWeight == RoundedWeight(weight)
      s1w == Min(roundedWeight, Slab1Cap)
      s2w == Min(roundedWeight - s1w, Slab2Cap)
      s3w == roundedWeight - s1w - s2w
  IN  [total |-> RatAdd(RatAdd(RatMul(Num(s1w), config.parcelSlab1Rate),
                               RatMul(Num(s2w), config.parcelSlab2Rate)),
                        RatMul(Num(s3w), config.parcelSlab3Rate)),
       breakdown |-> [kind |-> "slabs",
                      parts |-> <<[w |-> s1w, r |-> config.parcelSlab1Rate],
                                  [w |-> s2w, r |-> config.parcelSlab2Rate],
                                  [w |-> s3w, r |-> config.parcelSlab3Rate]>>],
       s1w |-> s1w, s2w |-> s2w, s3w |-> s3w]

calculateParcelAmount(weight, config) ==
  LET roundedWeight == RoundedWeight(weight)
      s1w == Min(roundedWeight, Slab1Cap)
      t1  == IF s1w > 0 THEN RatMul(Num(s1w), config.parcelSlab1Rate) ELSE Num(0)
      c1  == IF s1w > 0 THEN <<[w |-> s1w, r |-> config.parcelSlab1Rate]>> ELSE <<>>
      rem1 == IF s1w > 0 THEN roundedWeight - s1w ELSE roundedWeight
      s2w == IF rem1 > 0 THEN Min(rem1, Slab2Cap) ELSE 0
      t2  == IF rem1 > 0 THEN RatAdd(t1, RatMul(Num(s2w), config.parcelSlab2Rate)) ELSE t1
      c2  == IF rem1 > 0 THEN Append(c1, [w |-> s2w, r |-> config.parcelSlab2Rate]) ELSE c1
      rem2 == rem1 - s2w
      s3w == IF rem2 > 0 THEN rem2 ELSE 0
      t3  == IF rem2 > 0 THEN RatAdd(t2, RatMul(Num(s3w), config.parcelSlab3Rate)) ELSE t2
      c3  == IF rem2 > 0 THEN Append(c2, [w |-> s3w, r |-> config.parcelSlab3Rate]) ELSE c2
  IN  [total |-> t3,
       breakdown |-> IF c3 = <<>> THEN ZeroBreakdown ELSE [kind |-> "slabs", parts |-> c3],
       s1w |-> s1w, s2w |-> s2w, s3w |-> s3w]

\* every row that carries a rate is treated as manually rated
calculateRowRatedIsManual(row, config) ==
  LET rowRate == IF "rate" \in DOMAIN row THEN row.rate ELSE Num(0)
      isManualRate == (IF "isManualRate" \in DOMAIN row THEN row.isManualRate ELSE FALSE)
                        \/ rowRate # Num(0)
      roundedWeight == RoundedWeight(row.weight)
      calc == calculateParcelAmount(row.weight, config)
      rate == IF row.type = "Document"
                THEN (IF ~isManualRate THEN config.documentRate ELSE rowRate)
                ELSE (IF ~isManualRate
                        THEN (IF roundedWeight > 0
                                THEN RatDiv(calc.total, Num(roundedWeight))
                                ELSE config.parcelSlab1Rate)
                        ELSE rowRate)
      amount == IF row.type = "Document" THEN rate
                ELSE IF ~isManualRate THEN calc.total
                ELSE RatMul(rate, Num(roundedWeight))
      breakdown == IF row.type = "Document"
                     THEN [kind |-> "flat", parts |-> <<[w |-> 0, r |-> rate]>>]
                   ELSE IF ~isManualRate THEN calc.breakdown
                   ELSE [kind |-> "manual", parts |-> <<[w |-> roundedWeight, r |-> rate]>>]
  IN  [rate |-> rate, isManualRate |-> isManualRate,
       amount |-> amount, breakdown |-> breakdown] @@ row

\* The result is {...row, rate, isManualRate, amount, breakdown}; an absent
\* row.rate reads as 0 and an absent row.isManualRate as false.
calculateRow(row, config) ==
  LET rowRate == IF "rate" \in DOMAIN row THEN row.rate ELSE Num(0)
      isManualRate == IF "isManualRate" \in DOMAIN row THEN row.isManualRate ELSE FALSE
      roundedWeight == RoundedWeight(row.weight)
      calc == calculateParcelAmount(row.weight, config)
      rate == IF row.type = "Document"
                THEN (IF ~isManualRate THEN config.documentRate ELSE rowRate)
                ELSE (IF ~isManualRate
                        THEN (IF roundedWeight > 0
                                THEN RatDiv(calc.total, Num(roundedWeight))
                                ELSE config.parcelSlab1Rate)
                        ELSE rowRate)
      amount == IF row.type = "Document" THEN rate
                ELSE IF ~isManualRate THEN calc.total
                ELSE RatMul(rate, Num(roundedWeight))
      breakdown == IF row.type = "Document"
                     THEN [kind |-> "flat", parts |-> <<[w |-> 0, r |-> rate]>>]
                   ELSE IF ~isManualRate THEN calc.breakdown
                   ELSE [kind |-> "manual", parts |-> <<[w |-> roundedWeight, r |-> rate]>>]
  IN  [rate |-> rate, isManualRate |-> isManualRate,
       amount |-> amount, breakdown |-> breakdown] @@ row

RECURSIVE SumAmounts(_)
SumAmounts(rows) ==
  IF rows = <<>> THEN Num(0) ELSE RatAdd(Head(rows).amount, SumAmounts(Tail(rows)))

(***************************************************************************)
(* State (src/App.tsx, useState declarations and localStorage keys).       *)
(***************************************************************************)
VARIABLES
  chunkSession,        \* useState<ChunkSession | null>
  isChunkSessionOpen,  \* whether the session view is rendered
  chunkAiMode,         \* strategy selected for the next session
  history,             \* useState<ManifestHistory[]>
  folders,             \* useState<Folder[]>
  globalConfig,        \* useState<BillingConfig>
  localStorage,        \* persisted values under the session, history and folders keys
  calls,               \* processChunkQueue invocations awaiting a recognition tier
  timers,              \* follow-up processChunkQueue calls scheduled by setTimeout
  captures,            \* handleChunkCapture invocations awaiting the file read
  nextId,              \* next value of crypto.randomUUID(), per kind of object
  nextImage,           \* next photographed page
  clock,               \* Date.now(); every handler that reads it sees a later instant
  halted,              \* history variable: why the drain was last halted
  mon6,                \* history variable: progress of the three-chunk scenario
  profile,             \* which inputs the environment supplies in this run
  recycleBin,          \* useState<ManifestHistory[]>
  storedRecycleBin,    \* persisted value under RECYCLE_BIN_KEY
  currentFolderId,     \* folder shown by the dashboard, 0 for the root
  activeManifestId,    \* id of the manifest in the editor, 0 for none
  activeRows,          \* rows: the rows in the editor
  activeConfig,        \* config: the rates the editor calculates with
  manifestMeta,        \* manifest number in the editor
  importConflict,      \* useState<{existing, newCandidate} | null>
  imports,             \* import handlers awaiting a file read or a recognition
  bulkImportResults,   \* per-file report of the last bulk import
  status,              \* the last setStatus message, or null
  engine               \* a call of a function of billingLogic.ts: arguments, result

\* the state of the manifest repository, the editor and the importers
repoVars == <<recycleBin, storedRecycleBin, currentFolderId, activeManifestId,
              activeRows, activeConfig, manifestMeta, importConflict, imports,
              bulkImportResults, status>>

vars == <<chunkSession, isChunkSessionOpen, chunkAiMode, history, folders,
          globalConfig, localStorage, calls, timers, captures, nextId,
          nextImage, clock, halted, mon6, profile, engine, repoVars>>

\* null
NoSession == [null |-> TRUE]
NoConflict == [null |-> TRUE]
NoCall == [null |-> TRUE]

AiModes == {"default", "hybrid", "auto"}

(***************************************************************************)
(* Exploration profiles.  The state space is explored in four runs that    *)
(* differ in what the user and the recognition service supply:             *)
(*   "drain"    default strategy, a queue of up to MaxImages pages;        *)
(*   "overlap"  default strategy, up to MaxDrains drains at the same time; *)
(*   "tier"     every strategy and every answer, a short queue; the user   *)
(*              also closes the session view and reloads the page;         *)
(*   "capture"  enough pages to fill a chunk, up to MaxCapturesInFlight    *)
(*              file reads at the same time; the queue is not processed.   *)
(***************************************************************************)
Profiles == {"drain", "overlap", "tier", "capture"}

(***************************************************************************)
(* Profiles of the repository runs: the user works on the dashboard        *)
(* (imports, conflict dialog, editor, recycle bin, folders) while a        *)
(* session of one page may be drained behind it.                          *)
(*   "import"   interactive imports of a file or a document, conflicts;    *)
(*   "race"     an interactive import while the session is drained;        *)
(*   "bulk"     multi-file and archive imports;                            *)
(*   "edit"     the editor: rows, rates, save, open from history;          *)
(*   "bin"      recycle bin and folders;                                   *)
(*   "restore"  imports of a file while manifests are in the recycle bin.  *)
(***************************************************************************)
RepoProfiles == {"import", "race", "bulk", "edit", "bin", "restore"}

\* whether the user runs a chunked-capture session in this run
SessionOffered == profile \in {"race"}

ModesOffered == IF profile = "tier" THEN AiModes ELSE {"default"}

ImagesOffered ==
  IF profile \in RepoProfiles THEN 1
  ELSE IF profile = "drain" THEN MaxImages
  ELSE IF profile = "capture" THEN MaxCaptureImages
  ELSE IF profile = "overlap" THEN MaxOverlapImages ELSE MaxTierImages

ManifestsBound ==
  IF profile \in RepoProfiles THEN MaxRepoManifests
  ELSE IF profile = "drain" THEN MaxManifests
  ELSE IF profile = "capture" THEN 0
  ELSE IF profile = "overlap" THEN MaxOverlapManifests ELSE MaxTierManifests

DrainsBound == IF profile = "overlap" THEN MaxDrains ELSE 1

CapturesBound == IF profile = "capture" THEN MaxCapturesInFlight ELSE 1

\* whether the user closes the session view or reloads the page
LeavingOffered == profile \in {"tier"} \cup RepoProfiles

\* history variable: ids of all chunks ever closed
closedChunks == 1..(nextId.chunk - 1)

\* MODELS of the recognition service
FAST == "gemini-3-flash-preview"
ACCURATE == "gemini-3-pro-preview"
FALLBACK == "gemini-flash-latest"

\* Auto-close threshold of handleChunkCapture
ChunkCap == 5

\* Array.prototype.slice(1)
Slice1(q) == SubSeq(q, 2, Len(q))

RemoveAt(q, i) == SubSeq(q, 1, i - 1) \o SubSeq(q, i + 1, Len(q))

(***************************************************************************)
(* Structured answers of the recognition service: one manifest with a      *)
(* fractional-weight parcel and a document, and one answer without a       *)
(* manifest number and without items.                                      *)
(***************************************************************************)
NoText == <<>>

ItemizedResult ==
  [manifestNo |-> <<"MF", 1>>,
   items |-> << [slNo |-> 0, serialNo |-> <<"SN", 1>>, description |-> "",
                 type |-> "Parcel", weight |-> Rat(514, 100)],
                [slNo |-> 7, serialNo |-> NoText, description |-> "letter",
                 type |-> "Document", weight |-> Num(0)] >>]

EmptyResult == [manifestNo |-> NoText, items |-> <<>>]

RecognitionResults == {ItemizedResult, EmptyResult}

ResultsOffered ==
  IF profile = "tier" THEN RecognitionResults ELSE {ItemizedResult}

\* Row built from a recognized item (processChunkQueue, the calculateRow call).
ItemRow(item, index, id, config) ==
  calculateRow(
    [id |-> id,
     slNo |-> IF item.slNo # 0 THEN item.slNo ELSE index + 1,
     serialNo |-> IF item.serialNo # NoText THEN item.serialNo ELSE <<"AWB", 1000 + index>>,
     description |-> IF item.description # "" THEN item.description ELSE "Item",
     type |-> IF item.type = "Document" THEN "Document" ELSE "Parcel",
     weight |-> item.weight,
     isManualRate |-> FALSE], config)

\* index is the 0-based array index; ids are drawn in row order.
CalculatedRows(items, firstId, config) ==
  [k \in 1..Len(items) |-> ItemRow(items[k], k - 1, firstId + k - 1, config)]

\* newManifest of processChunkQueue; chunk records which chunk's images the
\* result was recognized from.
ChunkManifest(result, chunk, cs, config, ids, now) ==
  LET calculatedRows == CalculatedRows(result.items, ids.row, config)
  IN  [id |-> ids.manifest,
       manifestNo |-> IF result.manifestNo # NoText THEN result.manifestNo
                      ELSE <<"AUTO", now>>,
       rows |-> calculatedRows,
       config |-> config,
       totalAmount |-> SumAmounts(calculatedRows),
       itemCount |-> Len(calculatedRows),
       createdAt |-> now,
       folderId |-> cs.folderId,
       chunk |-> chunk.id]

(***************************************************************************)
(* parseBillingDocument: the tier tried first and the tier tried after a   *)
(* failed one ("throw" when the last callModel rejects).                   *)
(***************************************************************************)
FirstTier(useHybridMode) == IF useHybridMode THEN ACCURATE ELSE FAST

\* a faulty variant: the hybrid sequence goes from the accurate tier straight
\* to the stable fallback
NextTierSkippingFast(useHybridMode, tier) ==
  IF useHybridMode
    THEN (IF tier = ACCURATE THEN FALLBACK ELSE "throw")
    ELSE (IF tier = FAST THEN FALLBACK ELSE "throw")

NextTier(useHybridMode, tier) ==
  IF useHybridMode
    THEN (IF tier = ACCURATE THEN FAST
          ELSE IF tier = FAST THEN FALLBACK
          ELSE "throw")
    ELSE (IF tier = FAST THEN FALLBACK ELSE "throw")

\* the last entry of tried is the tier call that is outstanding
SetLastRes(tried, res) == [tried EXCEPT ![Len(tried)].res = res]

CallTier(tried, tier) == Append(tried, [tier |-> tier, res |-> "pending"])

(***************************************************************************)
(* History variables.                                                      *)
(***************************************************************************)
Mon6Next(op) ==
  IF mon6 = "idle" /\ op \in {"open", "cancel", "mode"} THEN "idle"
  ELSE IF mon6 = "idle" /\ op = "start"
    THEN (IF chunkAiMode = "default" THEN "capturing" ELSE "off")
  ELSE IF mon6 = "capturing" /\ op \in {"capture", "captured", "finish"} THEN "capturing"
  ELSE IF mon6 = "capturing" /\ op = "process"
    THEN (IF Len(chunkSession.pendingChunks) = 3 /\ Cardinality(closedChunks) = 3
             /\ captures = <<>>
            THEN "run0" ELSE "off")
  ELSE IF mon6 \in {"run0", "run1", "run2"} /\ op = "tierFail" THEN mon6
  ELSE IF mon6 \in {"run1", "run2"} /\ op = "timer" THEN mon6
  ELSE IF mon6 = "run0" /\ op = "success" THEN "run1"
  ELSE IF mon6 = "run1" /\ op = "success" THEN "run2"
  ELSE IF mon6 = "run2" /\ op = "exhausted" THEN "done"
  ELSE IF mon6 = "run2" /\ op = "success" THEN "drained"
  ELSE "off"

Ghost(op) == mon6' = Mon6Next(op)

(***************************************************************************)
(* Persistence (src/App.tsx, saveChunkSession and the setHistory updater   *)
(* of processChunkQueue): the same value goes to the state and the store.  *)
(***************************************************************************)
InitState ==
  /\ chunkSession = NoSession
  /\ isChunkSessionOpen = FALSE
  /\ chunkAiMode = "default"
  /\ history = <<>>
  /\ folders = <<>>
  /\ globalConfig = DEFAULT_CONFIG
  /\ localStorage = [session |-> NoSession, history |-> <<>>, folders |-> <<>>]
  /\ calls = <<>>
  /\ timers = <<>>
  /\ captures = <<>>
  /\ nextId = [folder |-> 1, session |-> 1, chunk |-> 1, manifest |-> 1, row |-> 1]
  /\ nextImage = 1
  /\ clock = 0
  /\ halted = "none"
  /\ mon6 = "idle"
  /\ recycleBin = <<>>
  /\ storedRecycleBin = <<>>
  /\ currentFolderId = 0
  /\ activeManifestId = 0
  /\ activeRows = <<>>
  /\ activeConfig = DEFAULT_CONFIG
  /\ manifestMeta = [manifestNo |-> NoText]
  /\ importConflict = NoConflict
  /\ imports = <<>>
  /\ bulkImportResults = <<>>
  /\ status = [null |-> TRUE]

Init == InitState /\ profile \in Profiles /\ engine = NoCall

\* saveChunkSession(newSession): setChunkSession plus setItem / removeItem
saveChunkSession(newSession, newHistory, newFolders) ==
  /\ chunkSession' = newSession
  /\ localStorage' = [session |-> newSession, history |-> newHistory,
                      folders |-> newFolders]

StoredHistory == localStorage.history
StoredFolders == localStorage.folders

\* prev => prev ? ({...prev, isProcessing, statusLog}) : null
WithStatus(prev, isProcessing, statusLog) ==
  IF prev = NoSession THEN NoSession
  ELSE [prev EXCEPT !.isProcessing = isProcessing, !.statusLog = statusLog]

WithLog(prev, statusLog) ==
  IF prev = NoSession THEN NoSession ELSE [prev EXCEPT !.statusLog = statusLog]

(***************************************************************************)
(* The session view (renderChunkSession) and its buttons.                  *)
(***************************************************************************)
\* "Monthly Capture Mode" button: setIsChunkSessionOpen(true)
OpenChunkSession ==
  /\ ~isChunkSessionOpen
  /\ isChunkSessionOpen' = TRUE
  /\ Ghost("open")
  /\ UNCHANGED <<chunkSession, chunkAiMode, history, folders, globalConfig,
                 localStorage, calls, timers, captures, nextId, nextImage,
                 clock, halted, profile, engine, repoVars>>

\* Cancel button of the start dialog
CancelChunkSession ==
  /\ isChunkSessionOpen
  /\ chunkSession = NoSession
  /\ isChunkSessionOpen' = FALSE
  /\ Ghost("cancel")
  /\ UNCHANGED <<chunkSession, chunkAiMode, history, folders, globalConfig,
                 localStorage, calls, timers, captures, nextId, nextImage,
                 clock, halted, profile, engine, repoVars>>

\* strategy radio buttons of the start dialog
SetChunkAiMode(mode) ==
  /\ isChunkSessionOpen
  /\ chunkSession = NoSession
  /\ mode # chunkAiMode
  /\ chunkAiMode' = mode
  /\ Ghost("mode")
  /\ UNCHANGED <<chunkSession, isChunkSessionOpen, history, folders,
                 globalConfig, localStorage, calls, timers, captures, nextId,
                 nextImage, clock, halted, profile, engine, repoVars>>

\* a faulty variant: closing the view also discards the session
closeChunkSessionErasing(confirmed) ==
  /\ LeavingOffered
  /\ isChunkSessionOpen
  /\ chunkSession # NoSession
  /\ isChunkSessionOpen' =
       IF Len(chunkSession.pendingChunks) > 0 /\ ~confirmed THEN TRUE ELSE FALSE
  /\ IF Len(chunkSession.pendingChunks) > 0 /\ ~confirmed
       THEN UNCHANGED <<chunkSession, localStorage>>
       ELSE saveChunkSession(NoSession, StoredHistory, StoredFolders)
  /\ Ghost("close")
  /\ UNCHANGED <<chunkAiMode, history, folders, globalConfig, calls, timers,
                 captures, nextId, nextImage, clock, halted, profile, engine,
                 repoVars>>

\* the X button; confirmed is the answer to confirm() when chunks are pending
closeChunkSession(confirmed) ==
  /\ LeavingOffered
  /\ isChunkSessionOpen
  /\ chunkSession # NoSession
  /\ isChunkSessionOpen' =
       IF Len(chunkSession.pendingChunks) > 0 /\ ~confirmed THEN TRUE ELSE FALSE
  /\ Ghost("close")
  /\ UNCHANGED <<chunkSession, chunkAiMode, history, folders, globalConfig,
                 localStorage, calls, timers, captures, nextId, nextImage,
                 clock, halted, profile, engine, repoVars>>

\* a faulty variant: the Start Session button is rendered with a session too
StartAlwaysEnabled == isChunkSessionOpen

\* The Start Session button is rendered only while there is no session.
StartEnabled == isChunkSessionOpen /\ chunkSession = NoSession

startChunkSession ==
  /\ StartEnabled
  /\ LET newFolderId == nextId.folder
         folderName == <<"Session", clock>>
         newFolder == [id |-> newFolderId, name |-> folderName, createdAt |-> clock]
         updatedFolders == Append(folders, newFolder)
         newSession == [id |-> nextId.session,
                        folderId |-> newFolderId,
                        folderName |-> folderName,
                        aiMode |-> chunkAiMode,
                        pendingChunks |-> <<>>,
                        currentChunk |-> <<>>,
                        totalManifestsCaptured |-> 0,
                        processedCount |-> 0,
                        isProcessing |-> FALSE,
                        statusLog |-> <<"Ready to capture.">>]
     IN  /\ folders' = updatedFolders
         /\ saveChunkSession(newSession, StoredHistory, updatedFolders)
  /\ nextId' = [nextId EXCEPT !.folder = @ + 1, !.session = @ + 1]
  /\ clock' = clock + 1
  /\ Ghost("start")
  /\ UNCHANGED <<isChunkSessionOpen, chunkAiMode, history, globalConfig, calls,
                 timers, captures, nextImage, halted, profile, engine, repoVars>>

(***************************************************************************)
(* Capture page and close chunk.                                           *)
(***************************************************************************)
\* the capture panel is rendered while the session is not processing
CapturePanel ==
  /\ isChunkSessionOpen
  /\ chunkSession # NoSession
  /\ ~chunkSession.isProcessing

\* handleChunkCapture up to the await of the file read
handleChunkCapture ==
  /\ CapturePanel
  /\ nextImage <= ImagesOffered
  /\ Len(captures) < CapturesBound
  /\ captures' = Append(captures, [cs |-> chunkSession, image |-> nextImage])
  /\ nextImage' = nextImage + 1
  /\ Ghost("capture")
  /\ UNCHANGED <<chunkSession, isChunkSessionOpen, chunkAiMode, history,
                 folders, globalConfig, localStorage, calls, timers, nextId,
                 clock, halted, profile, engine, repoVars>>

\* the session written by finishCurrentChunk called in the render of cs
FinishedSession(cs, chunkToSave, id) ==
  [cs EXCEPT !.pendingChunks = Append(cs.pendingChunks, [id |-> id, images |-> chunkToSave]),
             !.currentChunk = <<>>,
             !.totalManifestsCaptured = cs.totalManifestsCaptured + 1,
             !.statusLog = <<"Manifest captured. Ready for next.">>]

\* a faulty variant: the chunk is closed only past the cap
AutoCloseAfterCap(updatedChunk) == Len(updatedChunk) > ChunkCap

\* updatedChunk.length >= 5 closes the chunk
AutoClose(updatedChunk) == Len(updatedChunk) >= ChunkCap

\* handleChunkCapture after the file read: cs is the session of the render
\* in which the capture started
CaptureLoaded(i) ==
  /\ i \in 1..Len(captures)
  /\ LET cs == captures[i].cs
         updatedChunk == Append(cs.currentChunk, captures[i].image)
     IN  IF AutoClose(updatedChunk)
           THEN /\ saveChunkSession(FinishedSession(cs, updatedChunk, nextId.chunk),
                                    StoredHistory, StoredFolders)
                /\ nextId' = [nextId EXCEPT !.chunk = @ + 1]
           ELSE /\ saveChunkSession(
                     [cs EXCEPT !.currentChunk = updatedChunk,
                                !.statusLog = <<"Page captured.", Len(updatedChunk)>>],
                     StoredHistory, StoredFolders)
                /\ UNCHANGED nextId
  /\ captures' = RemoveAt(captures, i)
  /\ Ghost("captured")
  /\ UNCHANGED <<isChunkSessionOpen, chunkAiMode, history, folders,
                 globalConfig, calls, timers, nextImage, clock, halted,
                 profile, engine, repoVars>>

\* "Next Manifest" button, rendered while currentChunk is not empty
finishCurrentChunk ==
  /\ CapturePanel
  /\ Len(chunkSession.currentChunk) > 0
  /\ saveChunkSession(FinishedSession(chunkSession, chunkSession.currentChunk,
                                      nextId.chunk),
                      StoredHistory, StoredFolders)
  /\ nextId' = [nextId EXCEPT !.chunk = @ + 1]
  /\ Ghost("finish")
  /\ UNCHANGED <<isChunkSessionOpen, chunkAiMode, history, folders,
                 globalConfig, calls, timers, captures, nextImage, clock,
                 halted, profile, engine, repoVars>>

(***************************************************************************)
(* Process queue (processChunkQueue).  cs and config are the chunkSession  *)
(* and globalConfig of the render whose processChunkQueue is running; the  *)
(* functional updates read the current chunkSession.                       *)
(***************************************************************************)
ModeLabel(cs) ==
  IF cs.aiMode = "auto" THEN "Default Mode"
  ELSE IF cs.aiMode = "hybrid" THEN "Hybrid" ELSE "Default"

\* processChunkQueue from its guard to the first await
BeginRun(cs, config, op) ==
  /\ cs # NoSession
  /\ Len(cs.pendingChunks) # 0
  /\ Len(history) + Len(calls) < ManifestsBound
  /\ LET useHybrid == cs.aiMode = "hybrid"
         useAuto == cs.aiMode = "auto"
         useHybridMode == IF useAuto THEN FALSE ELSE useHybrid
         started == WithStatus(chunkSession, TRUE, <<"Starting batch processing...">>)
         logged == IF started = NoSession THEN NoSession
                   ELSE WithLog(started, <<"Processing Manifest",
                                           started.processedCount + 1, ModeLabel(cs)>>)
     IN  /\ saveChunkSession(logged, StoredHistory, StoredFolders)
         /\ calls' = Append(calls,
               [cs |-> cs,
                config |-> config,
                chunkToProcess |-> cs.pendingChunks[1],
                pc |-> IF useAuto THEN "autoDefault" ELSE "direct",
                useHybridMode |-> useHybridMode,
                tier |-> FirstTier(useHybridMode),
                tried |-> CallTier(<<>>, FirstTier(useHybridMode))])
  /\ Ghost(op)

\* the Process Queue button is rendered in the capture panel while chunks
\* are pending
ProcessButton == CapturePanel /\ Len(chunkSession.pendingChunks) > 0

processChunkQueue ==
  /\ ProcessButton
  /\ Len(calls) + Len(timers) < DrainsBound
  /\ BeginRun(chunkSession, globalConfig, "process")
  /\ halted' = "none"
  /\ UNCHANGED <<isChunkSessionOpen, chunkAiMode, history, folders,
                 globalConfig, timers, captures, nextId, nextImage, clock,
                 profile, engine, repoVars>>

\* setTimeout(() => processChunkQueue(), 500) fires: the call runs the
\* processChunkQueue of the render that scheduled it
TimerFires(i) ==
  /\ i \in 1..Len(timers)
  /\ BeginRun(timers[i].cs, timers[i].config, "timer")
  /\ timers' = RemoveAt(timers, i)
  /\ UNCHANGED <<isChunkSessionOpen, chunkAiMode, history, folders,
                 globalConfig, captures, nextId, nextImage, clock, halted,
                 profile, engine, repoVars>>

\* callModel rejects and parseBillingDocument calls the next tier
TierFails(i) ==
  /\ i \in 1..Len(calls)
  /\ LET c == calls[i]
         tier == NextTier(c.useHybridMode, c.tier)
     IN  /\ tier # "throw"
         /\ calls' = [calls EXCEPT ![i].tier = tier,
                                   ![i].tried = CallTier(SetLastRes(c.tried, "fail"), tier)]
  /\ Ghost("tierFail")
  /\ UNCHANGED <<chunkSession, isChunkSessionOpen, chunkAiMode, history,
                 folders, globalConfig, localStorage, timers, captures, nextId,
                 nextImage, clock, halted, profile, engine, repoVars>>

\* parseBillingDocument throws: the last tier rejected ("exhausted") or the
\* answer of a tier is not JSON ("malformed")
Throws(c, why) ==
  IF why = "exhausted" THEN NextTier(c.useHybridMode, c.tier) = "throw" ELSE TRUE

\* the inner catch of the auto strategy: retry with useHybridMode = true
AutoRetries(i, why) ==
  /\ i \in 1..Len(calls)
  /\ LET c == calls[i]
     IN  /\ Throws(c, why)
         /\ c.pc = "autoDefault"
         /\ saveChunkSession(
              WithLog(chunkSession, <<"Default failed. Retrying with Hybrid Mode...">>),
              StoredHistory, StoredFolders)
         /\ calls' = [calls EXCEPT ![i].pc = "autoHybrid",
                                   ![i].useHybridMode = TRUE,
                                   ![i].tier = FirstTier(TRUE),
                                   ![i].tried = CallTier(SetLastRes(c.tried, IF why = "exhausted" THEN "fail" ELSE why),
                                                         FirstTier(TRUE))]
  /\ Ghost("autoRetry")
  /\ UNCHANGED <<isChunkSessionOpen, chunkAiMode, history, folders,
                 globalConfig, timers, captures, nextId, nextImage, clock,
                 halted, profile, engine, repoVars>>

\* a faulty variant: the catch also removes the chunk that failed
FailedSessionDroppingHead(prev) ==
  IF prev = NoSession THEN NoSession
  ELSE [prev EXCEPT !.isProcessing = FALSE,
                    !.pendingChunks = Slice1(prev.pendingChunks),
                    !.statusLog = <<"Processing paused due to error. Resume when ready.">>]

\* the session written by the outer catch of processChunkQueue
FailedSession(prev) ==
  WithStatus(prev, FALSE, <<"Processing paused due to error. Resume when ready.">>)

RunFails(i, why) ==
  /\ i \in 1..Len(calls)
  /\ LET c == calls[i]
     IN  /\ Throws(c, why)
         /\ c.pc # "autoDefault"
         /\ saveChunkSession(FailedSession(chunkSession), StoredHistory, StoredFolders)
  /\ calls' = RemoveAt(calls, i)
  /\ halted' = "error"
  /\ Ghost(why)
  /\ UNCHANGED <<isChunkSessionOpen, chunkAiMode, history, folders,
                 globalConfig, timers, captures, nextId, nextImage, clock,
                 profile, engine, repoVars>>

\* the session written after the commit: the head of the current queue is
\* removed and the processed counter incremented
PoppedSession(prev, manifestNo) ==
  IF prev = NoSession THEN NoSession
  ELSE [prev EXCEPT !.pendingChunks = Slice1(prev.pendingChunks),
                    !.processedCount = prev.processedCount + 1,
                    !.statusLog = <<"Manifest processed successfully.", manifestNo>>]

\* chunkSession.pendingChunks.length - 1, computed in the render of cs
RemainingChunksLength(cs) == Len(cs.pendingChunks) - 1

\* a tier answers with result: commit the manifest, pop the queue and
\* either schedule the follow-up call or end the drain
RunSucceeds(i, result) ==
  /\ i \in 1..Len(calls)
  /\ \E newManifest \in {ChunkManifest(result, calls[i].chunkToProcess, calls[i].cs,
                                        calls[i].config, nextId, clock)} :
       LET c == calls[i]
           updated == <<newManifest>> \o history
           popped == PoppedSession(chunkSession, newManifest.manifestNo)
       IN  /\ history' = updated
           /\ IF RemainingChunksLength(c.cs) > 0
                THEN /\ saveChunkSession(popped, updated, StoredFolders)
                     /\ timers' = Append(timers, [cs |-> c.cs, config |-> c.config])
                ELSE /\ saveChunkSession(
                          WithStatus(popped, FALSE, <<"All captured manifests processed.">>),
                          updated, StoredFolders)
                     /\ timers' = timers
           /\ nextId' = [nextId EXCEPT !.row = @ + Len(result.items),
                                       !.manifest = @ + 1]
  /\ clock' = clock + 1
  /\ calls' = RemoveAt(calls, i)
  /\ Ghost("success")
  /\ UNCHANGED <<isChunkSessionOpen, chunkAiMode, folders, globalConfig,
                 captures, nextImage, halted, profile, engine, repoVars>>

\* the Pause Processing button is rendered while the session is processing
PauseButton ==
  /\ isChunkSessionOpen
  /\ chunkSession # NoSession
  /\ chunkSession.isProcessing

PauseProcessing ==
  /\ PauseButton
  /\ saveChunkSession([chunkSession EXCEPT !.isProcessing = FALSE,
                                           !.statusLog = <<"Paused by user.">>],
                      StoredHistory, StoredFolders)
  /\ halted' = "user"
  /\ Ghost("pause")
  /\ UNCHANGED <<isChunkSessionOpen, chunkAiMode, history, folders,
                 globalConfig, calls, timers, captures, nextId, nextImage,
                 clock, profile, engine, repoVars>>

(***************************************************************************)
(* Page reload (the load effect of App): every pending asynchronous step   *)
(* is gone and the state is read back from the store.                      *)
(***************************************************************************)
Reload ==
  /\ LeavingOffered
  /\ chunkSession' = localStorage.session
  /\ isChunkSessionOpen' = (localStorage.session # NoSession)
  /\ chunkAiMode' = "default"
  /\ history' = localStorage.history
  /\ folders' = localStorage.folders
  /\ calls' = <<>>
  /\ timers' = <<>>
  /\ captures' = <<>>
  /\ recycleBin' = storedRecycleBin
  /\ currentFolderId' = 0
  /\ activeManifestId' = 0
  /\ activeRows' = <<>>
  /\ activeConfig' = DEFAULT_CONFIG
  /\ manifestMeta' = [manifestNo |-> NoText]
  /\ importConflict' = NoConflict
  /\ imports' = <<>>
  /\ bulkImportResults' = <<>>
  /\ status' = [null |-> TRUE]
  /\ Ghost("reload")
  /\ UNCHANGED <<globalConfig, localStorage, storedRecycleBin, nextId,
                 nextImage, clock, halted, profile, engine>>

Next ==
  \/ OpenChunkSession
  \/ CancelChunkSession
  \/ \E mode \in ModesOffered : SetChunkAiMode(mode)
  \/ \E confirmed \in BOOLEAN : closeChunkSession(confirmed)
  \/ startChunkSession
  \/ handleChunkCapture
  \/ \E i \in 1..Len(captures) : CaptureLoaded(i)
  \/ finishCurrentChunk
  \/ processChunkQueue
  \/ \E i \in 1..Len(timers) : TimerFires(i)
  \/ \E i \in 1..Len(calls) : TierFails(i)
  \/ \E i \in 1..Len(calls), why \in {"exhausted", "malformed"} : AutoRetries(i, why)
  \/ \E i \in 1..Len(calls), why \in {"exhausted", "malformed"} : RunFails(i, why)
  \/ \E i \in 1..Len(calls), result \in ResultsOffered : RunSucceeds(i, result)
  \/ PauseProcessing
  \/ Reload

Spec == Init /\ [][Next]_vars

(***************************************************************************)
(* The manifest repository: imports, the editor, folders, the recycle bin. *)
(***************************************************************************)
(***************************************************************************)
(* The manifest repository (src/App.tsx): saveHistory, saveRecycleBin and  *)
(* saveFolders put the given value in the state and in the store.          *)
(***************************************************************************)
saveHistory(newHistory) ==
  /\ history' = newHistory
  /\ localStorage' = [localStorage EXCEPT !.history = newHistory]

saveRecycleBin(newBin) ==
  /\ recycleBin' = newBin
  /\ storedRecycleBin' = newBin

saveFolders(newFolders) ==
  /\ folders' = newFolders
  /\ localStorage' = [localStorage EXCEPT !.folders = newFolders]

\* setStatus({ type, message })
NoStatus == [null |-> TRUE]

Status(type, message) == [type |-> type, message |-> message]

\* the dashboard is covered by the session view, the conflict dialog and,
\* while an import runs, the upload dialog or the progress overlay
UserIdle ==
  /\ ~isChunkSessionOpen
  /\ importConflict = NoConflict
  /\ imports = <<>>

\* imports are started in the run only while few identities were drawn
IdsLeft ==
  nextId.manifest <= (IF profile = "race" THEN MaxRaceIds
                      ELSE IF profile = "bin" THEN 1
                      ELSE IF profile = "restore" THEN MaxRestoreIds
                      ELSE MaxManifestIds)

(***************************************************************************)
(* Payloads of imported JSON files.  rowsKind tells what the rows property *)
(* of the parsed object is: "array", "absent" or "other" (an object that   *)
(* is not an array).  The rows of a file carry the amount and breakdown    *)
(* somebody wrote into the file.                                           *)
(***************************************************************************)
NoConfig == [null |-> TRUE]

FileConfig ==
  [parcelSlab1Rate |-> Num(4), parcelSlab2Rate |-> Num(3),
   parcelSlab3Rate |-> Num(2), documentRate |-> Num(6)]

FileRow(id, type, weight, rate, isManualRate) ==
  [id |-> id, slNo |-> 1, serialNo |-> <<"SN", id>>, description |-> "file",
   type |-> type, weight |-> weight, rate |-> rate,
   isManualRate |-> isManualRate, amount |-> Num(1), breakdown |-> ZeroBreakdown]

JsonParcel ==
  [manifestNo |-> <<"MF", 1>>, rowsKind |-> "array",
   rows |-> <<FileRow(101, "Parcel", Num(12), Num(9), FALSE)>>,
   config |-> NoConfig]

JsonManual ==
  [manifestNo |-> <<"MF", 1>>, rowsKind |-> "array",
   rows |-> <<FileRow(102, "Parcel", Rat(5, 2), Num(7), TRUE),
              FileRow(103, "Document", Num(0), Num(9), FALSE)>>,
   config |-> FileConfig]

JsonOther ==
  [manifestNo |-> <<"MF", 2>>, rowsKind |-> "array",
   rows |-> <<FileRow(104, "Document", Num(0), Num(8), TRUE)>>,
   config |-> NoConfig]

JsonUnnumbered ==
  [manifestNo |-> NoText, rowsKind |-> "array",
   rows |-> <<FileRow(105, "Parcel", Num(1), Num(0), FALSE)>>,
   config |-> NoConfig]

JsonNoRows ==
  [manifestNo |-> <<"MF", 3>>, rowsKind |-> "absent", rows |-> <<>>,
   config |-> NoConfig]

JsonRowsNotArray ==
  [manifestNo |-> <<"MF", 4>>, rowsKind |-> "other", rows |-> <<>>,
   config |-> NoConfig]

\* content.rows && Array.isArray(content.rows)
HasRowsArray(content) == content.rowsKind = "array"

\* content.config || globalConfig
ConfigToUse(content, global) ==
  IF content.config # NoConfig THEN content.config ELSE global

\* a faulty variant: the rows of the file are taken as they are
RowsVerbatim(fileRows, configToUse) == fileRows

\* rows.map(r => calculateRow(r, configToUse))
RowsWithCalculations(fileRows, configToUse) ==
  [k \in 1..Len(fileRows) |-> calculateRow(fileRows[k], configToUse)]

\* history.find(h => h.manifestNo === manifestNo): the first match or null
NoManifest == [null |-> TRUE]

FindByManifestNo(list, manifestNo) ==
  IF \E k \in 1..Len(list) : list[k].manifestNo = manifestNo
    THEN list[CHOOSE k \in 1..Len(list) :
                /\ list[k].manifestNo = manifestNo
                /\ \A j \in 1..(k - 1) : list[j].manifestNo # manifestNo]
    ELSE NoManifest

\* a ManifestHistory object; chunk is 0 for a manifest that no chunk produced
Manifest(id, manifestNo, manifestRows, manifestConfig, now, folderId) ==
  [id |-> id,
   manifestNo |-> manifestNo,
   rows |-> manifestRows,
   config |-> manifestConfig,
   totalAmount |-> SumAmounts(manifestRows),
   itemCount |-> Len(manifestRows),
   createdAt |-> now,
   folderId |-> folderId,
   chunk |-> 0]

\* setRows, setManifestMeta, setConfig, setActiveManifestId for a manifest
OpenInEditor(manifest) ==
  /\ activeManifestId' = manifest.id
  /\ activeRows' = manifest.rows
  /\ activeConfig' = manifest.config
  /\ manifestMeta' = [manifestNo |-> manifest.manifestNo]

(***************************************************************************)
(* handleJsonFile: the reader's onload callback keeps history, globalConfig*)
(* and currentFolderId of the render in which the file was chosen.         *)
(***************************************************************************)
JsonFilesOffered ==
  IF profile = "import"
    THEN {JsonParcel, JsonManual, JsonUnnumbered, JsonNoRows, JsonRowsNotArray}
  ELSE IF profile = "race" THEN {JsonParcel}
  ELSE IF profile = "restore" THEN {JsonParcel, JsonManual}
  ELSE {}

handleJsonFile(content) ==
  /\ UserIdle
  /\ IdsLeft
  /\ imports' = Append(imports,
        [kind |-> "json", content |-> content, history |-> history,
         globalConfig |-> globalConfig, currentFolderId |-> currentFolderId])
  /\ UNCHANGED <<chunkSession, isChunkSessionOpen, chunkAiMode, history, folders,
                 globalConfig, localStorage, calls, timers, captures, nextId,
                 nextImage, clock, halted, mon6, profile, engine, recycleBin,
                 storedRecycleBin, currentFolderId, activeManifestId, activeRows,
                 activeConfig, manifestMeta, importConflict, bulkImportResults,
                 status>>

\* what an interactive import does with its candidate: a conflict with a
\* manifest of the closure's history, or autoSaveManifest
ImportCandidate(c, newCandidate, ids, message) ==
  LET existing == FindByManifestNo(c.history, newCandidate.manifestNo)
      manifestData == [newCandidate EXCEPT !.id = nextId.manifest + 1,
                                           !.folderId = c.currentFolderId]
  IN  IF existing # NoManifest
        THEN /\ importConflict' = [existing |-> existing, newCandidate |-> newCandidate]
             /\ nextId' = [ids EXCEPT !.manifest = @ + 1]
             /\ UNCHANGED <<history, localStorage, activeManifestId, activeRows,
                            activeConfig, manifestMeta, status>>
        ELSE /\ saveHistory(<<manifestData>> \o c.history)
             /\ OpenInEditor(manifestData)
             /\ status' = Status("success", message)
             /\ nextId' = [ids EXCEPT !.manifest = @ + 2]
             /\ UNCHANGED importConflict

JsonFileLoaded(i) ==
  /\ i \in 1..Len(imports)
  /\ imports[i].kind = "json"
  /\ LET c == imports[i]
         content == c.content
     IN  IF HasRowsArray(content)
           THEN \E newCandidate \in
                    {Manifest(nextId.manifest,
                              IF content.manifestNo # NoText THEN content.manifestNo
                              ELSE <<"MF-", clock>>,
                              RowsWithCalculations(content.rows,
                                                   ConfigToUse(content, c.globalConfig)),
                              ConfigToUse(content, c.globalConfig), clock, 0)} :
                  ImportCandidate(c, newCandidate, nextId,
                                  "JSON Manifest imported and saved to history.")
           ELSE /\ status' = Status("error", "Failed to parse JSON manifest.")
                /\ UNCHANGED <<history, localStorage, nextId, activeManifestId,
                               activeRows, activeConfig, manifestMeta,
                               importConflict>>
  /\ imports' = RemoveAt(imports, i)
  /\ clock' = IF HasRowsArray(imports[i].content) THEN clock + 1 ELSE clock
  /\ UNCHANGED <<chunkSession, isChunkSessionOpen, chunkAiMode, folders,
                 globalConfig, calls, timers, captures, nextImage, halted, mon6,
                 profile, engine, recycleBin, storedRecycleBin, currentFolderId,
                 bulkImportResults>>

(***************************************************************************)
(* processFilesWithAI: one recognition of the uploaded document, in the    *)
(* closure of the render in which the upload was started.                  *)
(***************************************************************************)
\* the number of Math.floor(Math.random() * 90000) + 10000
RandomNumbers == {10000, 99999}

\* whether the user uploads a document for recognition in this run
DocumentsOffered == profile \in {"import", "race"}

processFilesWithAI ==
  /\ DocumentsOffered
  /\ UserIdle
  /\ IdsLeft
  /\ imports' = Append(imports,
        [kind |-> "document", content |-> NoText, history |-> history,
         globalConfig |-> globalConfig, currentFolderId |-> currentFolderId])
  /\ status' = Status("info", "Analysis initiated...")
  /\ UNCHANGED <<chunkSession, isChunkSessionOpen, chunkAiMode, history, folders,
                 globalConfig, localStorage, calls, timers, captures, nextId,
                 nextImage, clock, halted, mon6, profile, engine, recycleBin,
                 storedRecycleBin, currentFolderId, activeManifestId, activeRows,
                 activeConfig, manifestMeta, importConflict, bulkImportResults>>

\* newRowsRaw and calculatedRows of processFilesWithAI
DocumentRow(item, index, id, globalCfg) ==
  calculateRow(
    [id |-> id,
     slNo |-> IF item.slNo # 0 THEN item.slNo ELSE index + 1,
     serialNo |-> IF item.serialNo # NoText THEN item.serialNo ELSE <<"AWB", 1000 + index>>,
     description |-> IF item.description # "" THEN item.description ELSE "Processed Item",
     type |-> IF item.type = "Document" THEN "Document" ELSE "Parcel",
     weight |-> item.weight,
     isManualRate |-> FALSE], globalCfg)

DocumentRows(items, firstId, globalCfg) ==
  [k \in 1..Len(items) |-> DocumentRow(items[k], k - 1, firstId + k - 1, globalCfg)]

\* parseBillingDocument resolves with result
DocumentRecognized(i, result) ==
  /\ i \in 1..Len(imports)
  /\ imports[i].kind = "document"
  /\ \E random \in (IF result.manifestNo # NoText THEN {0} ELSE RandomNumbers) :
     \E newCandidate \in
         {Manifest(nextId.manifest,
                   IF result.manifestNo # NoText THEN result.manifestNo
                   ELSE <<"MF", random>>,
                   DocumentRows(result.items, nextId.row, imports[i].globalConfig),
                   imports[i].globalConfig, clock, 0)} :
       ImportCandidate(imports[i], newCandidate,
                       [nextId EXCEPT !.row = @ + Len(result.items)],
                       "Document parsed successfully.")
  /\ imports' = RemoveAt(imports, i)
  /\ clock' = clock + 1
  /\ UNCHANGED <<chunkSession, isChunkSessionOpen, chunkAiMode, folders,
                 globalConfig, calls, timers, captures, nextImage, halted, mon6,
                 profile, engine, recycleBin, storedRecycleBin, currentFolderId,
                 bulkImportResults>>

\* a file read or parseBillingDocument rejects: the catch block
DocumentFails(i) ==
  /\ i \in 1..Len(imports)
  /\ imports[i].kind = "document"
  /\ status' = Status("error", "Analysis failed.")
  /\ imports' = RemoveAt(imports, i)
  /\ UNCHANGED <<chunkSession, isChunkSessionOpen, chunkAiMode, history, folders,
                 globalConfig, localStorage, calls, timers, captures, nextId,
                 nextImage, clock, halted, mon6, profile, engine, recycleBin,
                 storedRecycleBin, currentFolderId, activeManifestId, activeRows,
                 activeConfig, manifestMeta, importConflict, bulkImportResults>>

(***************************************************************************)
(* resolveConflict: the three buttons of the conflict dialog.              *)
(***************************************************************************)
ConflictActions == {"keep_both", "override", "discard"}

\* a faulty variant: the existing manifest is not removed
WithoutNothing(list, id) == list

\* history.filter(h => h.id !== id)
WithoutId(list, id) == SelectSeq(list, LAMBDA h : h.id # id)

\* a faulty variant: the candidate takes over the identity of the existing
\* manifest
CandidateUnderExistingId(newCandidate, id) ==
  [newCandidate EXCEPT !.id = importConflict.existing.id]

\* { ...newCandidate, id: crypto.randomUUID() }
CandidateToSave(newCandidate, id) == [newCandidate EXCEPT !.id = id]

\* a faulty variant: the dialog stays when the import is cancelled
ConflictAfterKeepingDiscarded(action) ==
  IF action = "discard" THEN importConflict ELSE NoConflict

\* setImportConflict(null)
ConflictAfter(action) == NoConflict

resolveConflict(action) ==
  /\ importConflict # NoConflict
  /\ ~isChunkSessionOpen
  /\ LET existing == importConflict.existing
         candidateToSave == CandidateToSave(importConflict.newCandidate, nextId.manifest)
     IN  CASE action = "discard" ->
                /\ status' = Status("info", "Import cancelled by user.")
                /\ UNCHANGED <<history, localStorage, nextId, activeManifestId,
                               activeRows, activeConfig, manifestMeta>>
           [] action = "keep_both" ->
                /\ saveHistory(<<candidateToSave>> \o history)
                /\ OpenInEditor(candidateToSave)
                /\ status' = Status("success", "Imported as a new copy.")
                /\ nextId' = [nextId EXCEPT !.manifest = @ + 1]
           [] action = "override" ->
                /\ saveHistory(<<candidateToSave>> \o WithoutId(history, existing.id))
                /\ OpenInEditor(candidateToSave)
                /\ status' = Status("success", "Existing record overwritten.")
                /\ nextId' = [nextId EXCEPT !.manifest = @ + 1]
  /\ importConflict' = ConflictAfter(action)
  /\ UNCHANGED <<chunkSession, isChunkSessionOpen, chunkAiMode, folders,
                 globalConfig, calls, timers, captures, nextImage, clock, halted,
                 mon6, profile, engine, recycleBin, storedRecycleBin, currentFolderId,
                 imports, bulkImportResults>>

(***************************************************************************)
(* Bulk imports: handleBulkJsonImport (several JSON files into a new       *)
(* folder) and handleZipImportRefactored (the JSON files of an archive).   *)
(* Both loops await every file and run in the closure of the render in     *)
(* which the files were chosen; executeBatchImport is a functional update. *)
(***************************************************************************)
JsonBatches ==
  {<<JsonParcel, JsonManual, JsonOther>>,
   <<JsonNoRows, JsonRowsNotArray, JsonUnnumbered>>}

BatchesOffered ==
  IF profile = "bulk" THEN JsonBatches
  ELSE IF profile = "race" THEN {<<JsonParcel>>}
  ELSE IF profile = "bin" THEN {<<JsonParcel, JsonOther>>}
  ELSE {}

Report(outcome, message) == [status |-> outcome, message |-> message]

\* history.some(h => h.manifestNo === json.manifestNo)
\*   || newManifests.some(h => h.manifestNo === json.manifestNo)
Exists(json, closureHistory, newManifests) ==
  json.manifestNo \in {closureHistory[k].manifestNo : k \in 1..Len(closureHistory)}
                        \cup {newManifests[k].manifestNo : k \in 1..Len(newManifests)}

\* one iteration of the loop of handleBulkJsonImport; acc holds newManifests,
\* results, the next identity and the clock; i is the 0-based index
BulkJsonFile(json, i, c, acc) ==
  IF Exists(json, c.history, acc.newManifests)
    THEN [acc EXCEPT !.results = Append(@, Report("warning", "Duplicate skipped"))]
  ELSE IF json.rowsKind = "absent"
    THEN [acc EXCEPT !.results = Append(@, Report("error", "Invalid structure"))]
  ELSE IF json.rowsKind # "array"
    THEN [acc EXCEPT !.results = Append(@, Report("error", "JSON Parse Error"))]
  ELSE [newManifests |-> Append(acc.newManifests,
            Manifest(acc.id,
                     IF json.manifestNo # NoText THEN json.manifestNo
                     ELSE <<"IMP", acc.now, i>>,
                     RowsWithCalculations(json.rows, ConfigToUse(json, c.globalConfig)),
                     ConfigToUse(json, c.globalConfig), acc.now, c.targetId)),
        results |-> Append(acc.results, Report("success", "Imported")),
        id |-> acc.id + 1,
        now |-> acc.now + 1]

\* one iteration of the loop of handleZipImportRefactored
ZipFile(json, i, c, acc) ==
  IF Exists(json, c.history, acc.newManifests)
    THEN [acc EXCEPT !.results = Append(@, Report("warning", "Duplicate"))]
  ELSE IF json.rowsKind = "other"
    THEN [acc EXCEPT !.results = Append(@, Report("error", "Corrupt"))]
  ELSE [newManifests |-> Append(acc.newManifests,
            Manifest(acc.id, json.manifestNo,
                     RowsWithCalculations(json.rows, ConfigToUse(json, c.globalConfig)),
                     ConfigToUse(json, c.globalConfig), acc.now, c.targetId)),
        results |-> Append(acc.results, Report("success", "Valid")),
        id |-> acc.id + 1,
        now |-> acc.now + 1]

RECURSIVE BatchLoop(_, _, _)
BatchLoop(c, k, acc) ==
  IF k > Len(c.files) THEN acc
  ELSE BatchLoop(c, k + 1,
                 IF c.kind = "bulk" THEN BulkJsonFile(c.files[k], k - 1, c, acc)
                 ELSE ZipFile(c.files[k], k - 1, c, acc))

BatchResult(c) ==
  BatchLoop(c, 1, [newManifests |-> <<>>, results |-> <<>>,
                   id |-> nextId.manifest, now |-> clock])

\* folders are created in the run only up to MaxFolderIds
FoldersLeft == profile # "restore" /\ nextId.folder <= MaxFolderIds

\* handleBulkJsonImport up to the first await, with the target "new folder"
handleBulkJsonImport(files) ==
  /\ UserIdle
  /\ IdsLeft
  /\ FoldersLeft
  /\ LET targetId == nextId.folder
         newFolder == [id |-> targetId, name |-> <<"Import", clock>>, createdAt |-> clock]
     IN  /\ saveFolders(Append(folders, newFolder))
         /\ imports' = Append(imports,
               [kind |-> "bulk", files |-> files, history |-> history,
                globalConfig |-> globalConfig, targetId |-> targetId])
  /\ nextId' = [nextId EXCEPT !.folder = @ + 1]
  /\ clock' = clock + 1
  /\ UNCHANGED <<chunkSession, isChunkSessionOpen, chunkAiMode, history,
                 globalConfig, calls, timers, captures, nextImage, halted, mon6,
                 profile, engine, recycleBin, storedRecycleBin, currentFolderId,
                 activeManifestId, activeRows, activeConfig, manifestMeta,
                 importConflict, bulkImportResults, status>>

\* executeBatchImport: setHistory(prev => [...manifests, ...prev]) and setItem
executeBatchImport(manifests) ==
  /\ history' = manifests \o history
  /\ localStorage' = [localStorage EXCEPT !.history = manifests \o history]

\* the loop of handleBulkJsonImport has read every file
BulkJsonDone(i) ==
  /\ i \in 1..Len(imports)
  /\ imports[i].kind = "bulk"
  /\ \E done \in {BatchResult(imports[i])} :
       /\ executeBatchImport(done.newManifests)
       /\ bulkImportResults' = done.results
       /\ nextId' = [nextId EXCEPT !.manifest = done.id]
       /\ clock' = done.now
  /\ imports' = RemoveAt(imports, i)
  /\ UNCHANGED <<chunkSession, isChunkSessionOpen, chunkAiMode, folders,
                 globalConfig, calls, timers, captures, nextImage, halted, mon6,
                 profile, engine, recycleBin, storedRecycleBin, currentFolderId,
                 activeManifestId, activeRows, activeConfig, manifestMeta,
                 importConflict, status>>

\* handleZipImportRefactored up to the first await
handleZipImportRefactored(files) ==
  /\ UserIdle
  /\ IdsLeft
  /\ FoldersLeft
  /\ profile # "bin"
  /\ bulkImportResults' = <<>>
  /\ imports' = Append(imports,
        [kind |-> "zip", files |-> files, history |-> history,
         globalConfig |-> globalConfig, targetId |-> nextId.folder])
  /\ nextId' = [nextId EXCEPT !.folder = @ + 1]
  /\ UNCHANGED <<chunkSession, isChunkSessionOpen, chunkAiMode, history, folders,
                 globalConfig, localStorage, calls, timers, captures, nextImage,
                 clock, halted, mon6, profile, engine, recycleBin, storedRecycleBin,
                 currentFolderId, activeManifestId, activeRows, activeConfig,
                 manifestMeta, importConflict, status>>

\* the archive is unpacked and its loop has read every file
ZipDone(i) ==
  /\ i \in 1..Len(imports)
  /\ imports[i].kind = "zip"
  /\ \E done \in {BatchResult(imports[i])} :
       /\ IF Len(done.newManifests) > 0
            THEN LET newFolder == [id |-> imports[i].targetId,
                                   name |-> <<"Archive", clock>>,
                                   createdAt |-> clock]
                     updated == Append(folders, newFolder)
                 IN  /\ folders' = updated
                     /\ history' = done.newManifests \o history
                     /\ localStorage' = [localStorage EXCEPT
                                           !.folders = updated,
                                           !.history = done.newManifests \o history]
            ELSE UNCHANGED <<folders, history, localStorage>>
       /\ bulkImportResults' = done.results
       /\ nextId' = [nextId EXCEPT !.manifest = done.id]
       /\ clock' = done.now + 1
  /\ imports' = RemoveAt(imports, i)
  /\ UNCHANGED <<chunkSession, isChunkSessionOpen, chunkAiMode, globalConfig,
                 calls, timers, captures, nextImage, halted, mon6, profile, engine,
                 recycleBin, storedRecycleBin, currentFolderId, activeManifestId,
                 activeRows, activeConfig, manifestMeta, importConflict, status>>

(***************************************************************************)
(* The editor: startBlankSession, openManifestFromHistory, addRow,         *)
(* updateRow, deleteRow, the rate inputs of the configuration panel and    *)
(* saveManifest.                                                           *)
(***************************************************************************)
\* '' (the empty string of a blank manifest number)
BlankText == <<"">>

EditorOffered == profile = "edit"

\* edits are made in the run only while few rows were created and few
\* instants were read
RowsLeft == nextId.row <= MaxRowIds

SavesLeft == clock < MaxSaveClock

startBlankSession ==
  /\ EditorOffered
  /\ UserIdle
  /\ activeManifestId' = 0
  /\ activeRows' = <<>>
  /\ activeConfig' = globalConfig
  /\ manifestMeta' = [manifestNo |-> BlankText]
  /\ UNCHANGED <<chunkSession, isChunkSessionOpen, chunkAiMode, history, folders,
                 globalConfig, localStorage, calls, timers, captures, nextId,
                 nextImage, clock, halted, mon6, profile, engine, recycleBin,
                 storedRecycleBin, currentFolderId, importConflict, imports,
                 bulkImportResults, status>>

openManifestFromHistory(k) ==
  /\ EditorOffered
  /\ UserIdle
  /\ k \in 1..Len(history)
  /\ OpenInEditor(history[k])
  /\ UNCHANGED <<chunkSession, isChunkSessionOpen, chunkAiMode, history, folders,
                 globalConfig, localStorage, calls, timers, captures, nextId,
                 nextImage, clock, halted, mon6, profile, engine, recycleBin,
                 storedRecycleBin, currentFolderId, importConflict, imports,
                 bulkImportResults, status>>

EditorUnchanged ==
  UNCHANGED <<chunkSession, isChunkSessionOpen, chunkAiMode, history, folders,
              globalConfig, localStorage, calls, timers, captures, nextImage,
              clock, halted, mon6, profile, engine, recycleBin, storedRecycleBin,
              currentFolderId, activeManifestId, activeConfig, manifestMeta,
              importConflict, imports, bulkImportResults, status>>

addRow ==
  /\ EditorOffered
  /\ UserIdle
  /\ RowsLeft
  /\ \E newRow \in {calculateRow([id |-> nextId.row,
                                  slNo |-> Len(activeRows) + 1,
                                  serialNo |-> BlankText,
                                  description |-> "",
                                  type |-> "Parcel",
                                  weight |-> Num(0),
                                  isManualRate |-> FALSE], activeConfig)} :
       activeRows' = Append(activeRows, newRow)
  /\ nextId' = [nextId EXCEPT !.row = @ + 1]
  /\ EditorUnchanged

\* { ...row, ...updates }
Updated(row, updates) ==
  [f \in DOMAIN row |-> IF f \in DOMAIN updates THEN updates[f] ELSE row[f]]

\* what the user types into a row: a weight, or a rate (which makes the
\* rate manual)
RowUpdates ==
  {[weight |-> Rat(23, 2)],
   [rate |-> Num(7), isManualRate |-> TRUE]}

updateRow(k, updates) ==
  /\ EditorOffered
  /\ UserIdle
  /\ k \in 1..Len(activeRows)
  /\ \E newRow \in {calculateRow(Updated(activeRows[k], updates), activeConfig)} :
       activeRows' = [activeRows EXCEPT ![k] = newRow]
  /\ UNCHANGED nextId
  /\ EditorUnchanged

deleteRow(k) ==
  /\ EditorOffered
  /\ UserIdle
  /\ k \in 1..Len(activeRows)
  /\ LET filtered == RemoveAt(activeRows, k)
     IN  activeRows' = [j \in 1..Len(filtered) |-> [filtered[j] EXCEPT !.slNo = j]]
  /\ UNCHANGED nextId
  /\ EditorUnchanged

\* a rate input of the configuration panel: setConfig, then the effect that
\* recalculates every row of the editor with the new rates
setConfig(newConfig) ==
  /\ EditorOffered
  /\ UserIdle
  /\ newConfig # activeConfig
  /\ activeConfig' = newConfig
  /\ \E newRows \in {[j \in 1..Len(activeRows) |-> calculateRow(activeRows[j], newConfig)]} :
       activeRows' = newRows
  /\ UNCHANGED <<chunkSession, isChunkSessionOpen, chunkAiMode, history, folders,
                 globalConfig, localStorage, calls, timers, captures, nextId,
                 nextImage, clock, halted, mon6, profile, engine, recycleBin,
                 storedRecycleBin, currentFolderId, activeManifestId,
                 manifestMeta, importConflict, imports, bulkImportResults,
                 status>>

\* a faulty variant: the stored manifest takes the new rows and keeps its
\* other fields
ReplacingRowsOnly(list, id, manifestData) ==
  [j \in 1..Len(list) |->
     IF list[j].id = id THEN [list[j] EXCEPT !.rows = manifestData.rows] ELSE list[j]]

\* history.map(h => h.id === id ? manifestData : h)
ReplaceById(list, id, manifestData) ==
  [j \in 1..Len(list) |-> IF list[j].id = id THEN manifestData ELSE list[j]]

\* useMemo(() => rows.reduce((sum, row) => sum + row.amount, 0), [rows])
totalAmount == SumAmounts(activeRows)

saveManifest ==
  /\ EditorOffered
  /\ UserIdle
  /\ SavesLeft
  /\ LET manifestData ==
           [id |-> IF activeManifestId # 0 THEN activeManifestId ELSE nextId.manifest,
            manifestNo |-> manifestMeta.manifestNo,
            rows |-> activeRows,
            config |-> activeConfig,
            totalAmount |-> totalAmount,
            itemCount |-> Len(activeRows),
            createdAt |-> clock,
            folderId |-> currentFolderId,
            chunk |-> 0]
     IN  /\ saveHistory(IF activeManifestId # 0
                          THEN ReplaceById(history, activeManifestId, manifestData)
                          ELSE <<manifestData>> \o history)
         /\ activeManifestId' = manifestData.id
  /\ nextId' = IF activeManifestId # 0 THEN nextId
               ELSE [nextId EXCEPT !.manifest = @ + 1]
  /\ clock' = clock + 1
  /\ status' = Status("success", "Manifest saved successfully.")
  /\ UNCHANGED <<chunkSession, isChunkSessionOpen, chunkAiMode, folders,
                 globalConfig, calls, timers, captures, nextImage, halted, mon6,
                 profile, engine, recycleBin, storedRecycleBin, currentFolderId,
                 activeRows, activeConfig, manifestMeta, importConflict, imports,
                 bulkImportResults>>

(***************************************************************************)
(* Recycle bin and folders.  confirmed is the answer to confirm().         *)
(***************************************************************************)
BinOffered == profile \in {"bin", "restore"}

BinUnchanged ==
  UNCHANGED <<chunkSession, isChunkSessionOpen, chunkAiMode, globalConfig,
              calls, timers, captures, nextImage, halted, mon6, profile, engine,
              activeManifestId, activeRows, activeConfig, manifestMeta,
              importConflict, imports, bulkImportResults>>

softDeleteManifest(k, confirmed) ==
  /\ BinOffered
  /\ UserIdle
  /\ k \in 1..Len(history)
  /\ IF confirmed
       THEN /\ saveHistory(WithoutId(history, history[k].id))
            /\ saveRecycleBin(<<history[k]>> \o recycleBin)
            /\ status' = Status("info", "Moved to Recycle Bin")
       ELSE UNCHANGED <<history, localStorage, recycleBin, storedRecycleBin, status>>
  /\ UNCHANGED <<folders, nextId, clock, currentFolderId>>
  /\ BinUnchanged

\* a faulty variant: a restored manifest replaces the manifests of history
\* that carry its manifest number
restoreManifestReplacing(k) ==
  /\ BinOffered
  /\ UserIdle
  /\ k \in 1..Len(recycleBin)
  /\ saveRecycleBin(WithoutId(recycleBin, recycleBin[k].id))
  /\ saveHistory(<<recycleBin[k]>>
                   \o SelectSeq(history,
                                LAMBDA h : h.manifestNo # recycleBin[k].manifestNo))
  /\ status' = Status("success", "Manifest Restored")
  /\ UNCHANGED <<folders, nextId, clock, currentFolderId>>
  /\ BinUnchanged

restoreManifest(k) ==
  /\ BinOffered
  /\ UserIdle
  /\ k \in 1..Len(recycleBin)
  /\ saveRecycleBin(WithoutId(recycleBin, recycleBin[k].id))
  /\ saveHistory(<<recycleBin[k]>> \o history)
  /\ status' = Status("success", "Manifest Restored")
  /\ UNCHANGED <<folders, nextId, clock, currentFolderId>>
  /\ BinUnchanged

permanentDeleteManifest(k, confirmed) ==
  /\ BinOffered
  /\ UserIdle
  /\ k \in 1..Len(recycleBin)
  /\ IF confirmed
       THEN saveRecycleBin(WithoutId(recycleBin, recycleBin[k].id))
       ELSE UNCHANGED <<recycleBin, storedRecycleBin>>
  /\ UNCHANGED <<history, localStorage, folders, nextId, clock, currentFolderId,
                 status>>
  /\ BinUnchanged

emptyRecycleBin(confirmed) ==
  /\ BinOffered
  /\ UserIdle
  /\ recycleBin # <<>>
  /\ IF confirmed
       THEN saveRecycleBin(<<>>)
       ELSE UNCHANGED <<recycleBin, storedRecycleBin>>
  /\ UNCHANGED <<history, localStorage, folders, nextId, clock, currentFolderId,
                 status>>
  /\ BinUnchanged

\* a folder tile of the dashboard, or the Back button (0)
selectFolder(id) ==
  /\ BinOffered
  /\ UserIdle
  /\ id \in {0} \cup {folders[k].id : k \in 1..Len(folders)}
  /\ currentFolderId' = id
  /\ UNCHANGED <<history, localStorage, recycleBin, storedRecycleBin, folders,
                 nextId, clock, status>>
  /\ BinUnchanged

handleCreateFolder ==
  /\ BinOffered
  /\ UserIdle
  /\ FoldersLeft
  /\ saveFolders(Append(folders, [id |-> nextId.folder, name |-> <<"Folder", clock>>,
                                 createdAt |-> clock]))
  /\ nextId' = [nextId EXCEPT !.folder = @ + 1]
  /\ clock' = clock + 1
  /\ UNCHANGED <<history, recycleBin, storedRecycleBin, currentFolderId, status>>
  /\ BinUnchanged

\* a faulty variant: the manifests of the folder are deleted with it
DroppingFolder(list, id) == SelectSeq(list, LAMBDA h : h.folderId # id)

\* history.map(h => h.folderId === id ? { ...h, folderId: undefined } : h)
Unparented(list, id) ==
  [j \in 1..Len(list) |->
     IF list[j].folderId = id THEN [list[j] EXCEPT !.folderId = 0] ELSE list[j]]

handleDeleteFolder(k, confirmed) ==
  /\ BinOffered
  /\ UserIdle
  /\ k \in 1..Len(folders)
  /\ IF confirmed
       THEN LET id == folders[k].id
                newFolders == SelectSeq(folders, LAMBDA f : f.id # id)
                newHistory == Unparented(history, id)
            IN  /\ folders' = newFolders
                /\ history' = newHistory
                /\ localStorage' = [localStorage EXCEPT !.folders = newFolders,
                                                        !.history = newHistory]
                /\ currentFolderId' = IF currentFolderId = id THEN 0 ELSE currentFolderId
       ELSE UNCHANGED <<folders, history, localStorage, currentFolderId>>
  /\ UNCHANGED <<recycleBin, storedRecycleBin, nextId, clock, status>>
  /\ BinUnchanged

\* folderId is the id of a folder, or 0 for the root
handleMoveManifest(k, folderId) ==
  /\ BinOffered
  /\ UserIdle
  /\ k \in 1..Len(history)
  /\ folderId \in {0} \cup {folders[j].id : j \in 1..Len(folders)}
  /\ saveHistory([history EXCEPT ![k].folderId = folderId])
  /\ status' = Status("success", "Manifest moved successfully.")
  /\ UNCHANGED <<folders, recycleBin, storedRecycleBin, nextId, clock,
                 currentFolderId>>
  /\ BinUnchanged

(***************************************************************************)
(* The repository runs: the dashboard operations, and a session whose      *)
(* recognitions succeed at the first tier.                                 *)
(***************************************************************************)
RepoNext ==
  \/ SessionOffered /\ UserIdle /\ OpenChunkSession
  \/ closeChunkSession(TRUE)
  \/ startChunkSession
  \/ handleChunkCapture
  \/ \E i \in 1..Len(captures) : CaptureLoaded(i)
  \/ finishCurrentChunk
  \/ processChunkQueue
  \/ \E i \in 1..Len(calls) : RunSucceeds(i, ItemizedResult)
  \/ \E content \in JsonFilesOffered : handleJsonFile(content)
  \/ \E i \in 1..Len(imports) : JsonFileLoaded(i)
  \/ processFilesWithAI
  \/ \E i \in 1..Len(imports) : DocumentRecognized(i, ItemizedResult)
  \/ \E i \in 1..Len(imports) : DocumentFails(i)
  \/ \E action \in ConflictActions : resolveConflict(action)
  \/ \E files \in BatchesOffered : handleBulkJsonImport(files)
  \/ \E i \in 1..Len(imports) : BulkJsonDone(i)
  \/ \E files \in BatchesOffered : handleZipImportRefactored(files)
  \/ \E i \in 1..Len(imports) : ZipDone(i)
  \/ startBlankSession
  \/ \E k \in 1..Len(history) : openManifestFromHistory(k)
  \/ addRow
  \/ \E k \in 1..Len(activeRows), updates \in RowUpdates : updateRow(k, updates)
  \/ \E k \in 1..Len(activeRows) : deleteRow(k)
  \/ \E newConfig \in {DEFAULT_CONFIG, FileConfig} : setConfig(newConfig)
  \/ saveManifest
  \/ \E k \in 1..Len(history), confirmed \in BOOLEAN : softDeleteManifest(k, confirmed)
  \/ \E k \in 1..Len(recycleBin) : restoreManifest(k)
  \/ \E k \in 1..Len(recycleBin), confirmed \in BOOLEAN : permanentDeleteManifest(k, confirmed)
  \/ \E confirmed \in BOOLEAN : emptyRecycleBin(confirmed)
  \/ \E id \in 0..MaxFolderIds : selectFolder(id)
  \/ handleCreateFolder
  \/ \E k \in 1..Len(folders), confirmed \in BOOLEAN : handleDeleteFolder(k, confirmed)
  \/ \E k \in 1..Len(history), folderId \in 0..MaxFolderIds : handleMoveManifest(k, folderId)

RepoInit == InitState /\ profile \in RepoProfiles /\ engine = NoCall

RepoSpec == RepoInit /\ [][RepoNext]_vars


(***************************************************************************)
(* The functions of src/utils/billingLogic.ts called on their own.  The    *)
(* variable engine holds one call: the function, its arguments and, once   *)
(* the call has returned, its result.  The arguments are drawn in the      *)
(* initial state.                                                          *)
(***************************************************************************)
Call(fn, args) == [fn |-> fn, args |-> args, returned |-> FALSE, result |-> NoCall]

\* weights in steps of half a kilogram, from below zero to beyond the second slab
Weights == {Rat(k, 2) : k \in -4..(2 * MaxWeight)}

\* the weights of the documented examples: 5.14 kg and 177 kg
ExampleWeights == {Rat(257, 50), Num(177)}

FractionalConfig ==
  [parcelSlab1Rate |-> Rat(5, 2), parcelSlab2Rate |-> Rat(3, 2),
   parcelSlab3Rate |-> Rat(1, 2), documentRate |-> Rat(9, 2)]

FreeConfig ==
  [parcelSlab1Rate |-> Num(0), parcelSlab2Rate |-> Num(0),
   parcelSlab3Rate |-> Num(0), documentRate |-> Num(0)]

\* a discount entered as a negative rate of the second slab
DiscountConfig ==
  [parcelSlab1Rate |-> Num(3), parcelSlab2Rate |-> Num(-1),
   parcelSlab3Rate |-> Num(1), documentRate |-> Num(5)]

RateConfigs == {DEFAULT_CONFIG, FileConfig, FractionalConfig, FreeConfig, DiscountConfig}

ParcelCalls ==
  {Call("calculateParcelAmount", [weight |-> w, config |-> c]) :
     w \in Weights \cup ExampleWeights, c \in RateConfigs}

\* the fields of a row that calculateRow reads; rate and isManualRate may be absent
RowBase(type, weight) ==
  [id |-> 1, slNo |-> 1, serialNo |-> "SN", description |-> "row",
   type |-> type, weight |-> weight]

RowRates == {Num(0), Num(7), Rat(5, 2)}

RowInputs ==
  LET bases == {RowBase(t, w) : t \in {"Parcel", "Document"},
                                w \in Weights \cup ExampleWeights}
      rated == bases \cup {[rate |-> r] @@ b : r \in RowRates, b \in bases}
  IN  rated \cup {[isManualRate |-> m] @@ b : m \in BOOLEAN, b \in rated}

RowCalls ==
  {Call("calculateRow", [row |-> r, config |-> c]) :
     r \in RowInputs, c \in {DEFAULT_CONFIG, FractionalConfig}}

AppUnchanged ==
  UNCHANGED <<chunkSession, isChunkSessionOpen, chunkAiMode, history, folders,
              globalConfig, localStorage, calls, timers, captures, nextId,
              nextImage, clock, halted, mon6, profile, repoVars>>

Pending(fn) == engine # NoCall /\ engine.fn = fn /\ ~engine.returned

Returned(fn) == engine # NoCall /\ engine.fn = fn /\ engine.returned

ParcelAmountReturns ==
  /\ Pending("calculateParcelAmount")
  /\ engine' = [engine EXCEPT
       !.returned = TRUE,
       !.result = calculateParcelAmount(engine.args.weight, engine.args.config)]
  /\ AppUnchanged

RowReturns ==
  /\ Pending("calculateRow")
  /\ engine' = [engine EXCEPT
       !.returned = TRUE,
       !.result = calculateRow(engine.args.row, engine.args.config)]
  /\ AppUnchanged

\* rows.map(row => calculateRow(row, config)) over rows that were calculated before
RowCalculatedAgain ==
  /\ Returned("calculateRow")
  /\ engine.args.row # engine.result
  /\ engine' = [engine EXCEPT
       !.args.row = engine.result,
       !.result = calculateRow(engine.result, engine.args.config)]
  /\ AppUnchanged

RateNext ==
  \/ ParcelAmountReturns
  \/ RowReturns
  \/ RowCalculatedAgain

RateInit == InitState /\ profile = "rate" /\ engine \in ParcelCalls \cup RowCalls

RateSpec == RateInit /\ [][RateNext]_vars

(***************************************************************************)
(* evaluateExpression (src/utils/billingLogic.ts).  A string is a sequence *)
(* of characters, a token the sequence of its characters.  Numbers are     *)
(* exact rationals; NaN and the infinities are modelled by two values      *)
(* whose denominator is 0, so that isNaN and isFinite can be computed.     *)
(***************************************************************************)
Digits == {"0", "1", "2", "3", "4", "5", "6", "7", "8", "9"}

Operators == {"-", "+", "*", "/", "(", ")"}

DigitValue(ch) ==
  CASE ch = "0" -> 0 [] ch = "1" -> 1 [] ch = "2" -> 2 [] ch = "3" -> 3
    [] ch = "4" -> 4 [] ch = "5" -> 5 [] ch = "6" -> 6 [] ch = "7" -> 7
    [] ch = "8" -> 8 [] ch = "9" -> 9

NaN == [n |-> 0, d |-> 0]

Infinity == [n |-> 1, d |-> 0]

isNaN(x) == x = NaN

isFinite(x) == x.d # 0

\* input.replace(/\s+/g, '')
WithoutWhitespace(input) == SelectSeq(input, LAMBDA ch : ch # " ")

\* the last index of the run of digits that starts at i
RECURSIVE DigitsEnd(_, _)
DigitsEnd(expr, i) ==
  IF i + 1 <= Len(expr) /\ expr[i + 1] \in Digits THEN DigitsEnd(expr, i + 1) ELSE i

\* \d+(\.\d+)? matched at i
NumberEnd(expr, i) ==
  LET j == DigitsEnd(expr, i)
  IN  IF j + 2 <= Len(expr) /\ expr[j + 1] = "." /\ expr[j + 2] \in Digits
        THEN DigitsEnd(expr, j + 2) ELSE j

\* expr.match(/(\d+(\.\d+)?|[-+*/()])/g): the matches from index i on; a
\* character that starts no match is passed over
RECURSIVE Matches(_, _)
Matches(expr, i) ==
  IF i > Len(expr) THEN <<>>
  ELSE IF expr[i] \in Digits
    THEN <<SubSeq(expr, i, NumberEnd(expr, i))>> \o Matches(expr, NumberEnd(expr, i) + 1)
  ELSE IF expr[i] \in Operators
    THEN <<SubSeq(expr, i, i)>> \o Matches(expr, i + 1)
  ELSE Matches(expr, i + 1)

RECURSIVE DigitsValue(_)
DigitsValue(digits) ==
  IF digits = <<>> THEN 0
  ELSE 10 * DigitsValue(SubSeq(digits, 1, Len(digits) - 1))
         + DigitValue(digits[Len(digits)])

RECURSIVE Pow10(_)
Pow10(k) == IF k = 0 THEN 1 ELSE 10 * Pow10(k - 1)

\* parseFloat of a token: NaN for an operator or a parenthesis
parseFloat(token) ==
  IF token[1] \notin Digits THEN NaN
  ELSE LET whole == DigitsEnd(token, 1)
           fraction == SubSeq(token, whole + 2, Len(token))
       IN  Rat(DigitsValue(SubSeq(token, 1, whole)) * Pow10(Len(fraction))
                 + DigitsValue(fraction),
               Pow10(Len(fraction)))

\* arithmetic of numbers; an operation on a value that is not finite is not
\* finite (no such value arises from the guarded division below)
Arith(x, y, finite) == IF isFinite(x) /\ isFinite(y) THEN finite ELSE NaN

\* every operator adds
ExpressionStepAdding(op, lhs, rhs) == Arith(lhs, rhs, RatAdd(lhs, rhs))

\* if (op === '+') lhs += rhs; else lhs -= rhs;
ExpressionStep(op, lhs, rhs) ==
  IF op = <<"+">> THEN Arith(lhs, rhs, RatAdd(lhs, rhs))
  ELSE Arith(lhs, rhs, RatAdd(lhs, RatMul(Num(-1), rhs)))

\* JavaScript's lhs / rhs
Quotient(lhs, rhs) ==
  IF isFinite(lhs) /\ isFinite(rhs)
    THEN (IF rhs.n # 0 THEN RatDiv(lhs, rhs)
          ELSE IF lhs.n = 0 THEN NaN ELSE Infinity)
    ELSE NaN

\* the division without the guard against a zero divisor
TermStepUnguarded(op, lhs, rhs) ==
  IF op = <<"*">> THEN Arith(lhs, rhs, RatMul(lhs, rhs))
  ELSE Quotient(lhs, rhs)

\* if (op === '*') lhs *= rhs; else if (rhs === 0) lhs = 0; else lhs /= rhs;
TermStep(op, lhs, rhs) ==
  IF op = <<"*">> THEN Arith(lhs, rhs, RatMul(lhs, rhs))
  ELSE IF rhs = Num(0) THEN Num(0)
  ELSE Quotient(lhs, rhs)

\* The parser functions return the value and the position reached; pos
\* counts from 1, so that pos <= Len(tokens) is the code's pos < tokens.length.
RECURSIVE parseExpression(_, _), ExpressionLoop(_, _, _), parseTerm(_, _),
          TermLoop(_, _, _), parseFactor(_, _)

parseExpression(tokens, pos) ==
  LET lhs == parseTerm(tokens, pos)
  IN  ExpressionLoop(tokens, lhs.pos, lhs.val)

ExpressionLoop(tokens, pos, lhs) ==
  IF pos <= Len(tokens) /\ tokens[pos] \in {<<"+">>, <<"-">>}
    THEN LET rhs == parseTerm(tokens, pos + 1)
         IN  ExpressionLoop(tokens, rhs.pos, ExpressionStep(tokens[pos], lhs, rhs.val))
    ELSE [val |-> lhs, pos |-> pos]

parseTerm(tokens, pos) ==
  LET lhs == parseFactor(tokens, pos)
  IN  TermLoop(tokens, lhs.pos, lhs.val)

TermLoop(tokens, pos, lhs) ==
  IF pos <= Len(tokens) /\ tokens[pos] \in {<<"*">>, <<"/">>}
    THEN LET rhs == parseFactor(tokens, pos + 1)
         IN  TermLoop(tokens, rhs.pos, TermStep(tokens[pos], lhs, rhs.val))
    ELSE [val |-> lhs, pos |-> pos]

parseFactor(tokens, pos) ==
  IF pos > Len(tokens) THEN [val |-> Num(0), pos |-> pos]
  ELSE IF tokens[pos] = <<"(">>
    THEN LET inner == parseExpression(tokens, pos + 1)
         IN  [val |-> inner.val,
              pos |-> IF inner.pos <= Len(tokens) /\ tokens[inner.pos] = <<")">>
                        THEN inner.pos + 1 ELSE inner.pos]
  ELSE LET val == parseFloat(tokens[pos])
       IN  [val |-> IF isNaN(val) THEN Num(0) ELSE val, pos |-> pos + 1]

evaluateExpression(input) ==
  LET expr == WithoutWhitespace(input)
      tokens == Matches(expr, 1)
  IN  IF expr = <<>> THEN Num(0)
      ELSE IF tokens = <<>> THEN Num(0)
      ELSE LET result == parseExpression(tokens, 1).val
           IN  IF isFinite(result) THEN result ELSE Num(0)

(***************************************************************************)
(* The strings evaluated: every string of up to MaxExprLen characters of   *)
(* Alphabet, and the expressions written out from Formulas of up to three  *)
(* numbers.  A call of the second kind remembers the formula its text was  *)
(* written from in the field written.                                      *)
(***************************************************************************)
Alphabet == {"0", "2", "5", "+", "-", "*", "/", "(", ")", ".", " ", "a"}

Atom(text, value) == [text |-> text, value |-> value]

Atoms ==
  {Atom(<<"0">>, Num(0)), Atom(<<"2">>, Num(2)), Atom(<<"5">>, Num(5)),
   Atom(<<"1", "0">>, Num(10)), Atom(<<"1", ".", "5">>, Rat(3, 2))}

BinaryOperators == {"+", "-", "*", "/"}

Formula(shape, a, o1, b, o2, c) ==
  [shape |-> shape, a |-> a, o1 |-> o1, b |-> b, o2 |-> o2, c |-> c]

\* a o1 b o2 c, (a o1 b) o2 c and a o1 (b o2 c)
Formulas ==
  {Formula(s, a, o1, b, o2, c) :
     s \in {"flat", "left", "right"}, a \in Atoms, o1 \in BinaryOperators,
     b \in Atoms, o2 \in BinaryOperators, c \in Atoms}

\* "12+15+30" and "2*(3+4)"
ExampleFormulas ==
  {Formula("flat", Atom(<<"1", "2">>, Num(12)), "+", Atom(<<"1", "5">>, Num(15)),
           "+", Atom(<<"3", "0">>, Num(30))),
   Formula("right", Atom(<<"2">>, Num(2)), "*", Atom(<<"3">>, Num(3)),
           "+", Atom(<<"4">>, Num(4)))}

Written(f) ==
  CASE f.shape = "flat" -> f.a.text \o <<f.o1>> \o f.b.text \o <<f.o2>> \o f.c.text
    [] f.shape = "left" ->
         <<"(">> \o f.a.text \o <<f.o1>> \o f.b.text \o <<")">> \o <<f.o2>> \o f.c.text
    [] f.shape = "right" ->
         f.a.text \o <<f.o1>> \o <<"(">> \o f.b.text \o <<f.o2>> \o f.c.text \o <<")">>

\* "abc", "10/0", "5+10/0" and "1 2+5"
ExampleStrings ==
  {<<"a", "b", "c">>, <<"1", "0", "/", "0">>, <<"5", "+", "1", "0", "/", "0">>,
   <<"1", " ", "2", "+", "5">>}

NoFormula == [null |-> TRUE]

StringCall(s) == [written |-> NoFormula] @@ Call("evaluateExpression", [input |-> s])

FormulaCall(f) == [written |-> f] @@ Call("evaluateExpression", [input |-> Written(f)])

ExpressionReturns ==
  /\ Pending("evaluateExpression")
  /\ engine' = [engine EXCEPT
       !.returned = TRUE,
       !.result = evaluateExpression(engine.args.input)]
  /\ AppUnchanged

EvalNext == ExpressionReturns

EvalInit ==
  /\ InitState
  /\ profile = "evaluate"
  /\ \/ \E k \in 0..MaxExprLen : \E s \in [1..k -> Alphabet] : engine = StringCall(s)
     \/ \E s \in ExampleStrings : engine = StringCall(s)
     \/ \E f \in Formulas : engine = FormulaCall(f)
     \/ \E f \in ExampleFormulas : engine = FormulaCall(f)

EvalSpec == EvalInit /\ [][EvalNext]_vars

(***************************************************************************)
(* Properties.                                                             *)
(***************************************************************************)
Range(q) == {q[k] : k \in 1..Len(q)}

HasSession == chunkSession # NoSession

\* a step in which processChunkQueue starts recognizing a chunk
RunBegins == Len(calls') = Len(calls) + 1

\* a step in which a request is sent to a recognition tier
\* C1: every chunk sent to the recognition service is the chunk at the head
\* of pendingChunks at the moment it is sent.
C1_SentChunkIsHead ==
  [][RunBegins =>
       /\ HasSession
       /\ chunkSession.pendingChunks # <<>>
       /\ calls'[Len(calls')].chunkToProcess = Head(chunkSession.pendingChunks)]_vars

\* C2: every chunk that was ever closed is still in pendingChunks or has a
\* manifest recognized from it in history.
C2_NoChunkDropped ==
  \A id \in closedChunks :
    \/ HasSession /\ \E k \in 1..Len(chunkSession.pendingChunks) :
                       chunkSession.pendingChunks[k].id = id
    \/ \E k \in 1..Len(history) : history[k].chunk = id

\* C3: at most one recognition call is outstanding.
C3_OneInFlight == Len(calls) <= 1

\* a step in which the outer catch of processChunkQueue handles the failure
\* of call i
FailureOf(i) ==
  /\ i \in 1..Len(calls)
  /\ calls' = RemoveAt(calls, i)
  /\ history' = history
  /\ timers' = timers
  /\ HasSession
  /\ chunkSession' = FailedSession(chunkSession)

\* C4: when recognition of the head chunk fails, the session is paused with
\* the queue (the failed chunk at its head), processedCount and history
\* unchanged, and no recognition of a chunk is started until the user starts
\* Process queue again.
C4_FailurePauses ==
  [][/\ \A i \in 1..Len(calls) :
          (FailureOf(i) /\ chunkSession.pendingChunks # <<>>
             /\ calls[i].chunkToProcess = Head(chunkSession.pendingChunks))
          => /\ ~chunkSession'.isProcessing
             /\ chunkSession'.pendingChunks = chunkSession.pendingChunks
             /\ chunkSession'.processedCount = chunkSession.processedCount
             /\ history' = history
     /\ (halted = "error" /\ RunBegins) => halted' = "none"]_vars

TiersOf(tried) == [k \in 1..Len(tried) |-> tried[k].tier]

IsPrefix(p, q) == Len(p) <= Len(q) /\ SubSeq(q, 1, Len(p)) = p

\* every tier call but the outstanding one has failed
EarlierFailed(tried) ==
  \A k \in 1..Len(tried) - 1 : tried[k].res \in {"fail", "malformed"}

DefaultOrder == <<FAST, FALLBACK>>
HybridOrder == <<ACCURATE, FAST, FALLBACK>>

\* the order of the auto strategy as the specification states it
StatedAutoOrder == <<FAST>> \o HybridOrder

\* C5 as stated: the tiers called for one chunk are a prefix of the
\* strategy's order, auto being fast followed by the hybrid sequence, and a
\* tier is called only after every earlier one failed.
C5_StatedTierOrder ==
  \A c \in Range(calls) :
    /\ EarlierFailed(c.tried)
    /\ IsPrefix(TiersOf(c.tried),
                IF c.cs.aiMode = "default" THEN DefaultOrder
                ELSE IF c.cs.aiMode = "hybrid" THEN HybridOrder
                ELSE StatedAutoOrder)

\* a sequence of tier calls made by one parseBillingDocument: a prefix of
\* order in which only the last call may have returned an unparseable answer
OneSequence(tried, order) ==
  /\ tried # <<>>
  /\ IsPrefix(TiersOf(tried), order)
  /\ \A k \in 1..Len(tried) - 1 : tried[k].res = "fail"

\* the sequence was given up: its last tier rejected, or an answer could
\* not be parsed
GivenUp(tried, order) ==
  \/ Len(tried) = Len(order) /\ tried[Len(tried)].res = "fail"
  \/ tried[Len(tried)].res = "malformed"

\* C5 amended: default is fast then stable-fallback, hybrid is accurate, fast
\* then stable-fallback, and auto is the whole default sequence followed,
\* only once that sequence is given up, by the hybrid sequence; a tier is
\* called only after every earlier one failed.
C5_TierOrder ==
  \A c \in Range(calls) :
    /\ EarlierFailed(c.tried)
    /\ IF c.cs.aiMode = "default" THEN OneSequence(c.tried, DefaultOrder)
       ELSE IF c.cs.aiMode = "hybrid" THEN OneSequence(c.tried, HybridOrder)
       ELSE \/ OneSequence(c.tried, DefaultOrder)
            \/ \E k \in 1..Len(c.tried) - 1 :
                 /\ OneSequence(SubSeq(c.tried, 1, k), DefaultOrder)
                 /\ GivenUp(SubSeq(c.tried, 1, k), DefaultOrder)
                 /\ OneSequence(SubSeq(c.tried, k + 1, Len(c.tried)), HybridOrder)

\* C5 witness: an auto chunk whose default sequence failed and whose hybrid
\* sequence has reached its last tier.
C5_Witness ==
  \E c \in Range(calls) :
    /\ c.cs.aiMode = "auto"
    /\ TiersOf(c.tried) = DefaultOrder \o HybridOrder

SessionManifests ==
  {k \in 1..Len(history) : history[k].folderId = chunkSession.folderId}

\* C6: after start, three closed chunks and Process queue with strategy
\* default, two successful recognitions and a third that exhausts both
\* tiers, processedCount = 2, one chunk is pending, isProcessing = false and
\* exactly 2 manifests of the session's folder are in history.
C6_ThreeChunkScenario ==
  mon6 = "done" =>
    /\ chunkSession.processedCount = 2
    /\ Len(chunkSession.pendingChunks) = 1
    /\ ~chunkSession.isProcessing
    /\ Cardinality(SessionManifests) = 2
    /\ Len(history) = 2

\* C6 witness: the scenario has run to its end.
C6_Witness == mon6 = "done" /\ chunkSession.aiMode = "default" /\ calls = <<>>

\* C7: once the user has paused, no recognition of a further chunk starts
\* until the user starts Process queue again.
C7_PauseStopsDrain ==
  [][(halted = "user" /\ RunBegins) => halted' = "none"]_vars

\* C8: the stored session equals the session in memory, and a chunk in
\* flight is still listed in the stored pendingChunks.
C8_SessionPersisted ==
  /\ localStorage.session = chunkSession
  /\ \A c \in Range(calls) :
       /\ localStorage.session # NoSession
       /\ c.chunkToProcess \in Range(localStorage.session.pendingChunks)

\* a step in which capture i, started in the current render, completes
CaptureCompletes(i) ==
  /\ i \in 1..Len(captures)
  /\ captures' = RemoveAt(captures, i)
  /\ chunkSession' # chunkSession
  /\ captures[i].cs = chunkSession

\* C9: currentChunk always holds fewer than 5 images, every pending chunk
\* holds 1 to 5 images, a capture that leaves currentChunk below 5 only
\* appends its image, and the capture that brings currentChunk to 5 appends
\* exactly one chunk with those 5 images and empties currentChunk.
C9_FiveImageCap ==
  /\ [](HasSession =>
          /\ Len(chunkSession.currentChunk) < 5
          /\ \A c \in Range(chunkSession.pendingChunks) :
               Len(c.images) \in 1..5)
  /\ [][\A i \in 1..Len(captures) :
          CaptureCompletes(i) =>
            IF Len(chunkSession.currentChunk) < 4
              THEN /\ chunkSession'.currentChunk
                        = Append(chunkSession.currentChunk, captures[i].image)
                   /\ chunkSession'.pendingChunks = chunkSession.pendingChunks
              ELSE /\ Len(chunkSession'.pendingChunks)
                        = Len(chunkSession.pendingChunks) + 1
                   /\ IsPrefix(chunkSession.pendingChunks, chunkSession'.pendingChunks)
                   /\ chunkSession'.pendingChunks[Len(chunkSession'.pendingChunks)].images
                        = Append(chunkSession.currentChunk, captures[i].image)
                   /\ chunkSession'.currentChunk = <<>>]_vars

\* C9 witness: five captures filled and closed a chunk and the sixth image
\* started the next one.
C9_Witness ==
  /\ HasSession
  /\ \E c \in Range(chunkSession.pendingChunks) : Len(c.images) = 5
  /\ Len(chunkSession.currentChunk) = 1

\* C10: a session is started only when none exists; Start adds one folder
\* and a session that references it with empty chunks, zero counters and
\* isProcessing = false; an existing session is never replaced.
C10_SingleSession ==
  [][/\ (~HasSession /\ chunkSession' # NoSession) =>
          /\ Len(folders') = Len(folders) + 1
          /\ IsPrefix(folders, folders')
          /\ folders'[Len(folders')].id = chunkSession'.folderId
          /\ \A f \in Range(folders) : f.id # chunkSession'.folderId
          /\ chunkSession'.pendingChunks = <<>>
          /\ chunkSession'.currentChunk = <<>>
          /\ chunkSession'.totalManifestsCaptured = 0
          /\ chunkSession'.processedCount = 0
          /\ ~chunkSession'.isProcessing
     /\ HasSession =>
          /\ chunkSession' # NoSession
          /\ chunkSession'.id = chunkSession.id
          /\ chunkSession'.folderId = chunkSession.folderId
          /\ folders' = folders]_vars

\* C10 witness: a started session with a pending chunk while the start
\* dialog's view is open.
C10_Witness ==
  /\ HasSession
  /\ isChunkSessionOpen
  /\ chunkSession.pendingChunks # <<>>
  /\ Len(folders) = 1

(***************************************************************************)
(* Properties of the manifest repository, checked on RepoSpec.             *)
(***************************************************************************)
ManifestNos(list) == {list[k].manifestNo : k \in 1..Len(list)}

Ids(list) == {list[k].id : k \in 1..Len(list)}

CountNo(list, manifestNo) ==
  Cardinality({k \in 1..Len(list) : list[k].manifestNo = manifestNo})

\* an interactive import (a JSON file or a recognized document) comes back
InteractiveImportCompletes ==
  \E i \in 1..Len(imports) :
    /\ imports[i].kind \in {"json", "document"}
    /\ imports' = RemoveAt(imports, i)

ConflictRaised == importConflict = NoConflict /\ importConflict' # NoConflict

\* C11: when an interactive import comes back with a candidate whose
\* manifestNo is the manifestNo of a manifest currently in history, it
\* raises an ImportConflict that pairs that manifest with the candidate and
\* leaves history and its stored copy as they are; it adds its manifest to
\* history only when no manifest of history carries that manifestNo, and
\* then as one new entry in front of the others.
C11_ConflictOnSameManifestNo ==
  [][InteractiveImportCompletes =>
       /\ ConflictRaised =>
            /\ importConflict'.existing \in Range(history)
            /\ importConflict'.existing.manifestNo
                 = importConflict'.newCandidate.manifestNo
            /\ history' = history
            /\ localStorage'.history = localStorage.history
       /\ ~ConflictRaised =>
            \/ history' = history
            \/ /\ Len(history') = Len(history) + 1
               /\ Tail(history') = history
               /\ Head(history').manifestNo \notin ManifestNos(history)]_vars

\* the user presses a button of the conflict dialog
ConflictResolved == importConflict # NoConflict /\ importConflict' = NoConflict

KeepBothChosen == ConflictResolved /\ status'.message = "Imported as a new copy."

OverrideChosen == ConflictResolved /\ status'.message = "Existing record overwritten."

DiscardChosen == ConflictResolved /\ status'.message = "Import cancelled by user."

Repository == history \o recycleBin

ResolutionMessages ==
  {"Imported as a new copy.", "Existing record overwritten.",
   "Import cancelled by user."}

C14_ResolutionFrame ==
  [][/\ (importConflict # NoConflict /\ importConflict' # importConflict)
          => KeepBothChosen \/ OverrideChosen \/ DiscardChosen
     /\ (/\ importConflict # NoConflict
         /\ status' # status
         /\ status'.message \in ResolutionMessages)
          => importConflict' = NoConflict
     /\ DiscardChosen =>
          /\ history' = history
          /\ localStorage' = localStorage
          /\ recycleBin' = recycleBin
          /\ storedRecycleBin' = storedRecycleBin
          /\ activeManifestId' = activeManifestId
          /\ activeRows' = activeRows
     /\ (KeepBothChosen \/ OverrideChosen) =>
          /\ history' # history
          /\ Head(history') \notin Range(history)
          /\ activeManifestId' = Head(history').id
          /\ activeRows' = Head(history').rows
          /\ activeConfig' = Head(history').config
          /\ manifestMeta'.manifestNo = Head(history').manifestNo
          /\ recycleBin' = recycleBin]_vars

\* a conflict was discarded while a manifest was active
C14_Witness ==
  /\ status # NoStatus
  /\ status.message = "Import cancelled by user."
  /\ importConflict = NoConflict
  /\ activeManifestId # 0
  /\ activeManifestId \in Ids(history)

\* a bulk import (several JSON files or an archive) comes back
BatchCompletes(i) ==
  /\ i \in 1..Len(imports)
  /\ imports[i].kind \in {"bulk", "zip"}
  /\ imports' = RemoveAt(imports, i)

\* the manifests a step put in front of history
Added == SubSeq(history', 1, Len(history') - Len(history))

\* C15: when a bulk import comes back, every file of the batch is reported;
\* the manifests it adds carry manifestNos that no manifest of history
\* carries and that differ from each other, and there are as many of them
\* as files reported as imported.
C15_BulkSkipsDuplicates ==
  [][\A i \in 1..Len(imports) : BatchCompletes(i) =>
       /\ Len(history') >= Len(history)
       /\ history' = Added \o history
       /\ Len(bulkImportResults') = Len(imports[i].files)
       /\ Len(Added) = Cardinality({k \in 1..Len(bulkImportResults') :
                                      bulkImportResults'[k].status = "success"})
       /\ \A k \in 1..Len(Added) : Added[k].manifestNo \notin ManifestNos(history)
       /\ \A j, k \in 1..Len(Added) :
            Added[j].manifestNo = Added[k].manifestNo => j = k]_vars

\* C16: a payload whose rows are absent or not an array is rejected on every
\* import path: the single-file import sets an error status and leaves
\* history and its stored copy as they are; a bulk import reports the file
\* as an error and adds no manifest for it, so it adds at most as many
\* manifests as the batch has files with an array of rows.
C16_RowsRequired ==
  [][/\ \A i \in 1..Len(imports) :
          (/\ imports[i].kind = "json"
           /\ imports' = RemoveAt(imports, i)
           /\ ~HasRowsArray(imports[i].content))
          => /\ status'.type = "error"
             /\ history' = history
             /\ localStorage' = localStorage
     /\ \A i \in 1..Len(imports) : BatchCompletes(i) =>
          /\ \A k \in 1..Len(imports[i].files) :
               ~HasRowsArray(imports[i].files[k])
                 => bulkImportResults'[k].status = "error"
          /\ Len(history') - Len(history)
               <= Cardinality({k \in 1..Len(imports[i].files) :
                                 HasRowsArray(imports[i].files[k])})]_vars

\* C17: every manifest in history has totalAmount equal to the sum of the
\* amounts of its rows and itemCount equal to the number of its rows.
C17_DerivedTotals ==
  \A k \in 1..Len(history) :
    /\ history[k].totalAmount = SumAmounts(history[k].rows)
    /\ history[k].itemCount = Len(history[k].rows)

\* a manifest with a priced row was saved over its earlier version
C17_Witness ==
  /\ status # NoStatus
  /\ status.message = "Manifest saved successfully."
  /\ \E k \in 1..Len(history) :
       /\ history[k].id = activeManifestId
       /\ history[k].createdAt > 0
       /\ history[k].itemCount = 1
       /\ RatGt0(history[k].totalAmount)
       /\ history[k].rows = activeRows

\* C18: every row of every manifest in history has the amount and the
\* breakdown that calculateRow derives from the row under the config stored
\* in the same manifest.
C18_RowsMatchStoredConfig ==
  \A k \in 1..Len(history) :
    \A j \in 1..Len(history[k].rows) :
      LET row == history[k].rows[j]
          derived == calculateRow(row, history[k].config)
      IN  /\ row.amount = derived.amount
          /\ row.breakdown = derived.breakdown

\* both files numbered MF-1 are in history, one priced with the global
\* rates and one with the rates of the file, neither with the amount the
\* file carried
C18_Witness ==
  /\ \E k \in 1..Len(history) :
       /\ history[k].config = FileConfig
       /\ Len(history[k].rows) = 2
       /\ history[k].rows[1].id = 102
       /\ history[k].rows[1].amount = Num(21)
  /\ \E k \in 1..Len(history) :
       /\ history[k].config = globalConfig
       /\ Len(history[k].rows) = 1
       /\ history[k].rows[1].id = 101
       /\ history[k].rows[1].amount = Num(34)

\* C19: a manifest leaves history only into the recycle bin (the existing
\* entry that a conflict override replaces aside), it leaves the recycle
\* bin only back into history or by a purge of the bin that leaves history
\* as it is, and no manifest is in both collections at once.
C19_LeavesOnlyByPurge ==
  /\ [](Ids(history) \cap Ids(recycleBin) = {})
  /\ [][/\ \A id \in Ids(history) \ Ids(history') :
             \/ id \in Ids(recycleBin')
             \/ OverrideChosen /\ id = importConflict.existing.id
        /\ \A id \in Ids(recycleBin) \ Ids(recycleBin') :
             \/ id \in Ids(history')
             \/ history' = history]_vars

\* a folder is deleted
FolderDeleted == Len(folders') < Len(folders)

\* C20: a step that deletes a folder deletes exactly that folder and no
\* manifest: history keeps its length and order, every manifest whose
\* folderId was the deleted folder is the same manifest with no folder,
\* every other manifest is unchanged, the stored history is the new one and
\* the recycle bin is untouched.
C20_FolderDeleteKeepsManifests ==
  [][FolderDeleted =>
       LET gone == Ids(folders) \ Ids(folders')
       IN  /\ Cardinality(gone) = 1
           /\ Len(history') = Len(history)
           /\ \A k \in 1..Len(history) :
                history'[k] = IF history[k].folderId \in gone
                                THEN [history[k] EXCEPT !.folderId = 0]
                                ELSE history[k]
           /\ localStorage'.history = history'
           /\ recycleBin' = recycleBin]_vars

\* the folder of the imported batch was deleted with both manifests in it
C20_Witness ==
  /\ profile = "bin"
  /\ status = NoStatus
  /\ imports = <<>>
  /\ folders = <<>>
  /\ recycleBin = <<>>
  /\ Len(history) = 2
  /\ \A k \in 1..Len(history) : history[k].folderId = 0

(***************************************************************************)
(* Properties of the rate engine, checked on RateSpec.                     *)
(***************************************************************************)
\* ceil(max(w, 0))
Billable(w) == Ceil(IF w.n > 0 THEN w ELSE Num(0))

RatLe(x, y) == x.n * y.d <= y.n * x.d

SlabSum(s1w, s2w, s3w, config) ==
  RatAdd(RatAdd(RatMul(Num(s1w), config.parcelSlab1Rate),
                RatMul(Num(s2w), config.parcelSlab2Rate)),
         RatMul(Num(s3w), config.parcelSlab3Rate))

NonNegative(config) ==
  /\ config.parcelSlab1Rate.n >= 0
  /\ config.parcelSlab2Rate.n >= 0
  /\ config.parcelSlab3Rate.n >= 0

\* C22: for a config with non-negative rates, the total of a weight is at
\* most the total of every weight that is not lighter.
C22_Monotonic ==
  Returned("calculateParcelAmount") /\ NonNegative(engine.args.config) =>
    \A w2 \in Weights \cup ExampleWeights :
      RatLe(engine.args.weight, w2) =>
        RatLe(engine.result.total,
              calculateParcelAmount(w2, engine.args.config).total)

\* a weight in the second slab whose total is below that of a heavier weight
C22_Witness ==
  /\ Returned("calculateParcelAmount")
  /\ engine.args.config = FractionalConfig
  /\ engine.result.s2w > 0
  /\ \E w2 \in Weights :
       /\ RatLe(engine.args.weight, w2)
       /\ engine.result.total #
            calculateParcelAmount(w2, engine.args.config).total

\* the row passed to calculateRow is itself a result of calculateRow
CalculatedBefore == Returned("calculateRow") /\ "amount" \in DOMAIN engine.args.row

\* C23: calculating a row that calculateRow returned, under the same config,
\* returns it unchanged in every field.
C23_Idempotent == CalculatedBefore => engine.result = engine.args.row

\* a manually rated parcel of 5.14 kg was calculated twice
C23_Witness ==
  /\ CalculatedBefore
  /\ engine.result.type = "Parcel"
  /\ engine.result.isManualRate
  /\ engine.result.weight = Rat(257, 50)
  /\ engine.result.amount = Num(15)

(***************************************************************************)
(* Properties of the expression evaluator, checked on EvalSpec.            *)
(***************************************************************************)
\* The grammar Expression = Term { (+|-) Term }, Term = Factor { (*|/) Factor },
\* Factor = Number | ( Expression ) over the lexemes of a text: numbers,
\* operators, parentheses, separated by optional spaces; any other
\* character is the lexeme "?".
RECURSIVE Lexemes(_, _)
Lexemes(text, i) ==
  IF i > Len(text) THEN <<>>
  ELSE IF text[i] = " " THEN Lexemes(text, i + 1)
  ELSE IF text[i] \in Digits
    THEN <<"number">> \o Lexemes(text, NumberEnd(text, i) + 1)
  ELSE IF text[i] \in Operators THEN <<text[i]>> \o Lexemes(text, i + 1)
  ELSE <<"?">> \o Lexemes(text, i + 1)

\* Each recognizer returns the position after the phrase it accepted at p,
\* or 0 if there is no such phrase.
RECURSIVE ExpressionAt(_, _), ExpressionRest(_, _), TermAt(_, _), TermRest(_, _),
          FactorAt(_, _)

ExpressionAt(lx, p) ==
  LET q == TermAt(lx, p) IN IF q = 0 THEN 0 ELSE ExpressionRest(lx, q)

ExpressionRest(lx, q) ==
  IF q <= Len(lx) /\ lx[q] \in {"+", "-"}
    THEN LET r == TermAt(lx, q + 1) IN IF r = 0 THEN 0 ELSE ExpressionRest(lx, r)
    ELSE q

TermAt(lx, p) ==
  LET q == FactorAt(lx, p) IN IF q = 0 THEN 0 ELSE TermRest(lx, q)

TermRest(lx, q) ==
  IF q <= Len(lx) /\ lx[q] \in {"*", "/"}
    THEN LET r == FactorAt(lx, q + 1) IN IF r = 0 THEN 0 ELSE TermRest(lx, r)
    ELSE q

FactorAt(lx, p) ==
  IF p > Len(lx) THEN 0
  ELSE IF lx[p] = "number" THEN p + 1
  ELSE IF lx[p] = "("
    THEN LET q == ExpressionAt(lx, p + 1)
         IN  IF q # 0 /\ q <= Len(lx) /\ lx[q] = ")" THEN q + 1 ELSE 0
  ELSE 0

WellFormed(text) ==
  LET lx == Lexemes(text, 1) IN ExpressionAt(lx, 1) = Len(lx) + 1

\* C24: evaluateExpression returns a finite number for every input string,
\* and 0 for every input that is not a well-formed expression of the grammar.
C24_ZeroOnMalformed ==
  Returned("evaluateExpression") =>
    /\ isFinite(engine.result)
    /\ ~WellFormed(engine.args.input) => engine.result = Num(0)

\* the value of x op y; a quotient by zero counts as 0
Apply(op, x, y) ==
  CASE op = "+" -> RatAdd(x, y)
    [] op = "-" -> RatAdd(x, RatMul(Num(-1), y))
    [] op = "*" -> RatMul(x, y)
    [] op = "/" -> IF y.n = 0 THEN Num(0) ELSE RatDiv(x, y)

\* in a o1 b o2 c the second operator is applied first
SecondFirst(f) ==
  \/ f.shape = "right"
  \/ f.shape = "flat" /\ f.o1 \in {"+", "-"} /\ f.o2 \in {"*", "/"}

\* the value by precedence, left associativity and parentheses
Value(f) ==
  IF SecondFirst(f)
    THEN Apply(f.o1, f.a.value, Apply(f.o2, f.b.value, f.c.value))
    ELSE Apply(f.o2, Apply(f.o1, f.a.value, f.b.value), f.c.value)

HasZeroDivisor(f) ==
  IF SecondFirst(f)
    THEN \/ f.o2 = "/" /\ f.c.value = Num(0)
         \/ f.o1 = "/" /\ Apply(f.o2, f.b.value, f.c.value) = Num(0)
    ELSE \/ f.o1 = "/" /\ f.b.value = Num(0)
         \/ f.o2 = "/" /\ f.c.value = Num(0)

FormulaEvaluated == Returned("evaluateExpression") /\ engine.written # NoFormula

\* C25: a well-formed expression over non-negative numbers, + - * / and
\* parentheses evaluates to its value under standard precedence and left
\* associativity; "12+15+30" is 57 and "2*(3+4)" is 14.
C25_Precedence ==
  /\ FormulaEvaluated /\ ~HasZeroDivisor(engine.written) =>
       engine.result = Value(engine.written)
  /\ Returned("evaluateExpression") =>
       /\ engine.args.input = <<"1", "2", "+", "1", "5", "+", "3", "0">> =>
            engine.result = Num(57)
       /\ engine.args.input = <<"2", "*", "(", "3", "+", "4", ")">> =>
            engine.result = Num(14)

\* "2+5*10" is 52 and "(10-5)/2" is 2.5
C25_Witness ==
  /\ FormulaEvaluated
  /\ \/ /\ engine.args.input = <<"2", "+", "5", "*", "1", "0">>
        /\ engine.result = Num(52)
     \/ /\ engine.args.input = <<"(", "1", "0", "-", "5", ")", "/", "2">>
        /\ engine.result = Rat(5, 2)

\* C26: a division by a divisor that evaluates to 0 yields 0 for that
\* sub-term and the rest of the expression is evaluated around it;
\* "10/0" is 0 and "5+10/0" is 5.
C26_ZeroDivisor ==
  /\ FormulaEvaluated /\ HasZeroDivisor(engine.written) =>
       engine.result = Value(engine.written)
  /\ Returned("evaluateExpression") =>
       /\ engine.args.input = <<"1", "0", "/", "0">> => engine.result = Num(0)
       /\ engine.args.input = <<"5", "+", "1", "0", "/", "0">> =>
            engine.result = Num(5)

C26_Witness ==
  /\ FormulaEvaluated
  /\ engine.args.input = <<"5", "+", "1", "0", "/", "0">>
  /\ HasZeroDivisor(engine.written)
  /\ engine.result = Num(5)

(***************************************************************************)
(* Properties of the capture session, checked on Spec.                     *)
(***************************************************************************)
\* a step that closes a chunk: by the Next Manifest button or by the fifth
\* page of a capture
ChunkCloses == HasSession /\ nextId'.chunk # nextId.chunk

LastChunk(cs) == cs.pendingChunks[Len(cs.pendingChunks)]

\* C27: closing the current chunk appends exactly one chunk, which holds the
\* images of currentChunk (with the page just captured when the fifth page
\* closes it) under a new identity, at the tail of pendingChunks, empties
\* currentChunk and leaves the pending chunks, their order and
\* processedCount as they were; an empty chunk is never queued.
C27_CloseChunkFrame ==
  /\ [](HasSession => \A c \in Range(chunkSession.pendingChunks) : c.images # <<>>)
  /\ [][ChunkCloses =>
          /\ Len(chunkSession'.pendingChunks) = Len(chunkSession.pendingChunks) + 1
          /\ IsPrefix(chunkSession.pendingChunks, chunkSession'.pendingChunks)
          /\ \A c \in Range(chunkSession.pendingChunks) :
               c.id # LastChunk(chunkSession').id
          /\ IF captures' = captures
               THEN LastChunk(chunkSession').images = chunkSession.currentChunk
               ELSE \E i \in 1..Len(captures) :
                      LastChunk(chunkSession').images
                        = Append(chunkSession.currentChunk, captures[i].image)
          /\ chunkSession'.currentChunk = <<>>
          /\ chunkSession'.processedCount = chunkSession.processedCount]_vars

\* a step in which a recognition succeeds and its manifest is committed
ManifestCommitted == history' # history

\* C28: a successful recognition puts exactly one manifest in front of
\* history, in the session's folder and with rows calculated under the
\* global config, removes exactly the head of pendingChunks and adds 1 to
\* processedCount; processedCount is always the number of manifests of the
\* session's folder in history.
C28_CommitStep ==
  /\ [][ManifestCommitted =>
          /\ HasSession
          /\ history' = <<history'[1]>> \o history
          /\ history'[1].folderId = chunkSession.folderId
          /\ history'[1].config = globalConfig
          /\ \A r \in Range(history'[1].rows) : r = calculateRow(r, globalConfig)
          /\ chunkSession.pendingChunks # <<>>
          /\ chunkSession'.pendingChunks = Tail(chunkSession.pendingChunks)
          /\ chunkSession'.processedCount = chunkSession.processedCount + 1]_vars
  /\ [](HasSession => chunkSession.processedCount = Cardinality(SessionManifests))

\* a step in which the file read of capture i ends, whichever render it
\* started in
CaptureEnds(i) ==
  /\ i \in 1..Len(captures)
  /\ captures' = RemoveAt(captures, i)
  /\ chunkSession' # chunkSession

\* a step of the drain: Process queue, a tier's answer, the follow-up call
DrainSteps == HasSession /\ (calls' # calls \/ timers' # timers)

\* C29: no session update is lost when a capture or a chunk close
\* interleaves with the drain: the end of a capture keeps isProcessing,
\* processedCount and every pending chunk as the drain left them and adds
\* its page to currentChunk or to the chunk it closes, and a step of the
\* drain keeps currentChunk and the chunks behind the head.
C29_Serialized ==
  [][/\ \A i \in 1..Len(captures) :
          CaptureEnds(i) =>
            /\ chunkSession'.isProcessing = chunkSession.isProcessing
            /\ chunkSession'.processedCount = chunkSession.processedCount
            /\ IsPrefix(chunkSession.pendingChunks, chunkSession'.pendingChunks)
            /\ \/ captures[i].image \in Range(chunkSession'.currentChunk)
               \/ /\ chunkSession'.pendingChunks # <<>>
                  /\ captures[i].image \in Range(LastChunk(chunkSession').images)
     /\ DrainSteps =>
          /\ chunkSession' # NoSession
          /\ chunkSession'.currentChunk = chunkSession.currentChunk
          /\ chunkSession'.totalManifestsCaptured = chunkSession.totalManifestsCaptured
          /\ \/ chunkSession'.pendingChunks = chunkSession.pendingChunks
             \/ /\ chunkSession.pendingChunks # <<>>
                /\ chunkSession'.pendingChunks = Tail(chunkSession.pendingChunks)]_vars

\* a step in which the view of a session is hidden
SessionViewCloses == HasSession /\ isChunkSessionOpen /\ ~isChunkSessionOpen'

Closed == chunkSession = NoSession /\ localStorage.session = NoSession

\* The capture session with a user who keeps closing it: every step that
\* stays possible is eventually taken, and so is the X button with the
\* confirmation answered yes.
CloseSpec ==
  Spec /\ WF_vars(Next) /\ WF_vars(closeChunkSession(TRUE))

\* C31: from every session state the user can reach a state without a
\* session, in memory and under the persisted session key: a user who is
\* offered the X button and keeps closing the session eventually has none.
C31_SessionCanClose == (HasSession /\ profile = "tier") ~> Closed

(***************************************************************************)
(* Properties of the recycle bin and the folders, checked on RepoSpec.     *)
(***************************************************************************)
\* a step in which the JSON import i comes back with a manifest
JsonImportCompletes(i) ==
  /\ imports[i].kind = "json"
  /\ HasRowsArray(imports[i].content)
  /\ imports' = RemoveAt(imports, i)

\* a step that puts entry k of the recycle bin back into history
Restores(k) ==
  /\ recycleBin' = WithoutId(recycleBin, recycleBin[k].id)
  /\ Len(recycleBin') < Len(recycleBin)
  /\ history' # history

\* C32: the manifest number of an import is looked up in history only: a
\* JSON import whose number is carried by no manifest of the history it read
\* raises no conflict and is saved, whatever the recycle bin holds, and a
\* restore puts its manifest in front of history and raises no conflict,
\* whatever numbers history holds; so import X, delete, import X, restore
\* ends with two manifests numbered X in history.
C32_BinNotChecked ==
  [][/\ \A i \in 1..Len(imports) :
          (/\ JsonImportCompletes(i)
           /\ imports[i].content.manifestNo # NoText
           /\ imports[i].content.manifestNo \notin ManifestNos(imports[i].history))
          => /\ importConflict' = NoConflict
             /\ Len(history') = Len(imports[i].history) + 1
             /\ Head(history').manifestNo = imports[i].content.manifestNo
     /\ \A k \in 1..Len(recycleBin) :
          Restores(k) => /\ history' = <<recycleBin[k]>> \o history
                         /\ importConflict' = NoConflict]_vars

\* C32 witness: after import, delete, import and restore, history holds the
\* restored manifest in front of the manifest imported while it was in the
\* bin, both numbered MF1, and no conflict dialog is open.
C32_Witness ==
  /\ profile = "restore"
  /\ recycleBin = <<>>
  /\ importConflict = NoConflict
  /\ status = Status("success", "Manifest Restored")
  /\ Len(history) = 2
  /\ history[1].manifestNo = <<"MF", 1>>
  /\ history[2].manifestNo = <<"MF", 1>>
  /\ history[1].id = 2
  /\ history[2].id = 4
  /\ history[1].createdAt < history[2].createdAt

(***************************************************************************)
(* Properties of the breakdown and of calculateRow, checked on RateSpec.   *)
(***************************************************************************)
\* the terms "<w>kg*<rate>" joined by " + "; no term gives the empty string
Joined(terms) == [kind |-> "slabs", parts |-> terms]

\* the terms of the slabs that take a part of the billable weight, in slab
\* order
SlabTerms(w, config) ==
  LET billable == Billable(w)
      s1 == Min(billable, 10)
      s2 == Min(billable - s1, 100)
      s3 == billable - s1 - s2
  IN  SelectSeq(<<[w |-> s1, r |-> config.parcelSlab1Rate],
                  [w |-> s2, r |-> config.parcelSlab2Rate],
                  [w |-> s3, r |-> config.parcelSlab3Rate]>>,
                LAMBDA t : t.w > 0)

\* C33 as stated: the breakdown is the slab terms in slab order joined by
\* " + ", and it is the empty string whenever the total is zero.
C33_StatedBreakdown ==
  Returned("calculateParcelAmount") =>
    /\ engine.result.breakdown
         = Joined(SlabTerms(engine.args.weight, engine.args.config))
    /\ engine.result.total = Num(0) => engine.result.breakdown = Joined(<<>>)

\* C33 amended: the breakdown is the terms of the slabs that take weight, in
\* slab order, joined by " + " (rates (3,2,1) and 177 kg give
\* 10kg*3 + 100kg*2 + 67kg*1); when no slab takes weight, which is exactly
\* when the billable weight is zero, it is the text for a zero amount and
\* the total is zero; a total of zero with weight billed keeps its terms.
C33_Breakdown ==
  Returned("calculateParcelAmount") =>
    LET w == engine.args.weight
        config == engine.args.config
        r == engine.result
    IN  /\ r.breakdown = IF Billable(w) = 0 THEN ZeroBreakdown
                         ELSE Joined(SlabTerms(w, config))
        /\ Billable(w) > 0 => r.breakdown.parts # <<>>
        /\ r.breakdown = ZeroBreakdown => r.total = Num(0)
        /\ (w = Num(177) /\ config = DEFAULT_CONFIG =>
              r.breakdown.parts = <<[w |-> 10, r |-> Num(3)],
                                    [w |-> 100, r |-> Num(2)],
                                    [w |-> 67, r |-> Num(1)]>>)

\* C33 witness: a weight in the first slab billed at the rate 0: the total
\* is zero and the breakdown is the term of the first slab.
C33_Witness ==
  /\ Returned("calculateParcelAmount")
  /\ engine.args.config = FreeConfig
  /\ engine.args.weight = Rat(9, 2)
  /\ engine.result.total = Num(0)
  /\ engine.result.breakdown = Joined(<<[w |-> 5, r |-> Num(0)]>>)

\* row.rate || 0 and row.isManualRate || false
RateOf(row) == IF "rate" \in DOMAIN row THEN row.rate ELSE Num(0)

IsManual(row) == IF "isManualRate" \in DOMAIN row THEN row.isManualRate ELSE FALSE

\* the total of the slabs for the billable weight of w
SlabTotal(w, config) ==
  LET billable == Billable(w)
      s1 == Min(billable, 10)
      s2 == Min(billable - s1, 100)
  IN  SlabSum(s1, s2, billable - s1 - s2, config)

\* C34: the amount of a Document is the document rate of the config, or the
\* rate of the row when the row is manually rated, whatever its weight; the
\* amount of a manually rated Parcel is rate * ceil(weight), 0 for a weight
\* that is not positive; the amount of any other Parcel is the slab total,
\* and its stored rate is total / billable weight, or the rate of the first
\* slab when the billable weight is 0.
C34_AmountByType ==
  Returned("calculateRow") =>
    LET row == engine.args.row
        config == engine.args.config
        r == engine.result
        billable == Billable(row.weight)
    IN  /\ r.isManualRate = IsManual(row)
        /\ (row.type = "Document" /\ ~IsManual(row)) =>
              r.amount = config.documentRate /\ r.rate = config.documentRate
        /\ (row.type = "Document" /\ IsManual(row)) =>
              r.amount = RateOf(row) /\ r.rate = RateOf(row)
        /\ (row.type = "Parcel" /\ IsManual(row)) =>
              /\ r.amount = RatMul(RateOf(row), Num(billable))
              /\ r.rate = RateOf(row)
              /\ ~RatGt0(row.weight) => r.amount = Num(0)
        /\ (row.type = "Parcel" /\ ~IsManual(row)) =>
              /\ r.amount = SlabTotal(row.weight, config)
              /\ r.rate = IF billable = 0 THEN config.parcelSlab1Rate
                          ELSE RatDiv(r.amount, Num(billable))

\* C34 witness: a parcel of 11.5 kg that carries a rate but is not manually
\* rated is billed the slab total 10*3 + 2*2 = 34 and stores the rate 34/12.
C34_Witness ==
  /\ Returned("calculateRow")
  /\ engine.args.config = DEFAULT_CONFIG
  /\ engine.args.row.type = "Parcel"
  /\ engine.args.row.weight = Rat(23, 2)
  /\ "rate" \in DOMAIN engine.args.row
  /\ engine.args.row.rate = Num(7)
  /\ ~IsManual(engine.args.row)
  /\ engine.result.amount = Num(34)
  /\ engine.result.rate = Rat(17, 6)

(***************************************************************************)
(* Properties of the counters and of the drain, checked on Spec.           *)
(***************************************************************************)
\* C35: in every session state totalManifestsCaptured = processedCount +
\* the number of pending chunks, and neither counter ever decreases.
C35_CountersBalance ==
  /\ [](HasSession =>
          chunkSession.totalManifestsCaptured
            = chunkSession.processedCount + Len(chunkSession.pendingChunks))
  /\ [][(HasSession /\ chunkSession' # NoSession) =>
          /\ chunkSession'.totalManifestsCaptured >= chunkSession.totalManifestsCaptured
          /\ chunkSession'.processedCount >= chunkSession.processedCount]_vars

\* C36: a drain started with n pending chunks whose recognitions all
\* succeed, with no capture, pause or reload in between, ends after exactly
\* n recognitions with the queue empty, processedCount increased by n and
\* isProcessing = false; for the three chunks of the scenario: after the
\* third success nothing is in flight or scheduled.
C36_DrainTerminates ==
  mon6 = "drained" =>
    /\ chunkSession.pendingChunks = <<>>
    /\ chunkSession.processedCount = 3
    /\ ~chunkSession.isProcessing
    /\ calls = <<>>
    /\ timers = <<>>

\* the manifests of history recognized from the chunk id
ManifestsOf(id) == {k \in 1..Len(history) : history[k].chunk = id}

\* C37: no chunk is recognized and committed more than once: every closed
\* chunk has at most one manifest in history.
C37_CommittedOnce ==
  \A id \in closedChunks : Cardinality(ManifestsOf(id)) <= 1

\* C38: isProcessing is true exactly when a recognition call is in flight
\* or a follow-up processChunkQueue call is scheduled.
C38_ProcessingFlag ==
  HasSession =>
    (chunkSession.isProcessing <=> (calls # <<>> \/ timers # <<>>))

\* C39: every manifest of history has no folder or the id of an existing
\* folder.
C39_FolderRefsValid ==
  \A k \in 1..Len(history) : history[k].folderId \in {0} \cup Ids(folders)

\* a step in which the recognition of an uploaded document comes back
DocumentImportCompletes ==
  \E i \in 1..Len(imports) :
    /\ imports[i].kind = "document"
    /\ imports' = RemoveAt(imports, i)

\* C40: no update of the repository is lost when an interactive import
\* overlaps other operations: the import that saves its manifest adds it in
\* front of the history of that moment, so every manifest committed or
\* restored meanwhile stays and none deleted meanwhile comes back.
C40_NoLostUpdate ==
  [][(DocumentImportCompletes /\ history' # history) =>
       /\ Len(history') = Len(history) + 1
       /\ Tail(history') = history
       /\ localStorage'.history = history']_vars

====
